---- MODULE Spec2Model ----
(***************************************************************************)
(* Fortune trading bot: the signal aggregator (StrategyManager), the       *)
(* backtest ledger (BacktestEngine) and the paper portfolio ledger         *)
(* (PortfolioManager).                                                     *)
(*                                                                         *)
(* Money, prices and quantities are Python floats in the source; they are  *)
(* modelled as exact rationals <<n, d>> in lowest terms with d > 0, so     *)
(* that equal values are equal tuples.  Confidences are only compared in   *)
(* the code modelled here and are kept in hundredths (80 is 0.80).         *)
(***************************************************************************)
EXTENDS Integers, Sequences, FiniteSets, TLC

VARIABLES
    \* StrategyManager._filter_and_prioritize_signals, called on its own
    signals_in,      \* the argument `signals`
    best_signals,    \* the returned list
    agg_pc,          \* "start" before the call, "done" after it
    \* which ledger object a behaviour exercises
    engine,          \* "backtest" | "portfolio" | "none"
    \* BacktestEngine
    initial_capital, capital, positions, trades, equity_curve,
    bt_pc,           \* position inside run_backtest
    n_bars,          \* len(test_data)
    bar,             \* loop variable i of run_backtest
    close,           \* current_data.iloc[-1]['close'] of the bar being stepped
    signals,         \* the list returned by analyze_market for this bar
    sig_k,           \* index of the next signal of the for loop (1-based)
    n_fills,         \* signals the strategy has emitted so far in this run
    bt_result,       \* what run_backtest returned
    bt_runs,         \* run_backtest calls made on this BacktestEngine
    \* PortfolioManager
    mode, balance, pm_positions, trade_history,
    pm_clock,        \* datetime.now(): the number of place_order calls so far
    pm_call,         \* arguments of the latest place_order call
    pm_result,       \* what the latest place_order call returned
    portfolio_file,  \* the document at data/portfolio.json
    pm_restarts,     \* PortfolioManager objects constructed and initialised since
    \* history of the buys merged into each open position since its last sell
    lots,
    \* RiskManager
    daily_pnl, daily_trades, max_daily_loss, position_sizing_method,
    default_risk_per_trade,  \* config.get('default_risk_per_trade', 0.02)
    risk_trade_history,      \* RiskManager.trade_history
    rm_call,         \* the latest call: its name and arguments
    rm_result,       \* what the latest call returned
    \* one strategy object (RSI, MACD, Grid, DCA, Scalping or TrendFollowing)
    strategy,        \* which class it is
    params,          \* the defaults merged with the caller's overrides
    grid_levels,     \* Grid: self.grid_levels, the list of levels
    last_purchase,   \* DCA: time of the last purchase in hours, 0 for None
    purchase_history, \* DCA: self.purchase_history
    data_len,        \* len(data) of the latest analyze() call
    st_frame,        \* what the latest analyze() call read of its frame
    analyze_result,  \* what the latest analyze() call returned
    st_clock,        \* the number of analyze() calls so far
    st_now,          \* datetime.now() of the latest analyze() call, in hours
    signal_times,    \* the times of the analyze() calls that returned a signal
    \* StrategyManager.analyze_market
    mgr_enabled,     \* the names of self.strategies, in dict order
    mgr_keys,        \* the keys of the market_data mapping passed in
    mgr_tasks,       \* the analyze() calls of this call, in the order built
    mgr_outcomes,    \* what each task of this call ends with
    mgr_results,     \* the list asyncio.gather is filling
    mgr_order,       \* the tasks done so far, in the order they completed
    mgr_pc,          \* "idle" | "gather" | "done"
    mgr_out,         \* what analyze_market returned
    \* MarketDataManager
    data_cache, last_update,
    md_now,          \* datetime.now(), in half-minutes
    md_pc,           \* "idle" | "loop": position inside get_latest_data
    md_k,            \* index of the symbol the loop is at (1-based)
    market_data,     \* the dict get_latest_data is building, then returns
    md_fetch,        \* per symbol, how its turn of the loop ended in this call
    \* FortuneBot
    running,
    bot_pc,          \* "init" | "check" | "cycle" | "sleep1" | "sleep5" | "stopped"
    bot_cycles,      \* trading_cycle() calls started
    bot_errors,      \* trading_cycle() calls that raised
    bot_last,        \* how the latest finished cycle ended
    \* BaseStrategy.calculate_indicators
    ind_data,        \* the frame passed in: its number of rows and its closes
    ind_pc,          \* "input" | "done"
    indicators,      \* the columns of the frame returned
    \* run_backtest
    bt_strategy,     \* strategy_name: "any" for a strategy that names the
                     \* symbols of its signals itself, or one that names
                     \* them after the bar
    \* FortuneBot.trading_cycle
    live_cycles,     \* trading_cycle() calls completed
    live_keys,       \* the keys of the market data of the latest cycle
    live_signals,    \* what analyze_market returned in the latest cycle
    live_filtered    \* the signals handed to execute_trade

aggVars == <<signals_in, best_signals, agg_pc>>
btVars == <<initial_capital, capital, positions, trades, equity_curve, bt_pc,
            n_bars, bar, close, signals, sig_k, n_fills, bt_result, bt_runs>>
pmVars == <<mode, balance, pm_positions, trade_history, pm_clock, pm_call,
            pm_result, portfolio_file, pm_restarts>>
rmVars == <<daily_pnl, daily_trades, max_daily_loss, position_sizing_method,
            default_risk_per_trade, risk_trade_history, rm_call, rm_result>>
stVars == <<strategy, params, grid_levels, last_purchase, purchase_history,
            data_len, st_frame, analyze_result, st_clock, st_now, signal_times>>
mgrVars == <<mgr_enabled, mgr_keys, mgr_tasks, mgr_outcomes, mgr_results, mgr_order, mgr_pc, mgr_out>>
mdVars == <<data_cache, last_update, md_now, md_pc, md_k, market_data, md_fetch>>
botVars == <<running, bot_pc, bot_cycles, bot_errors, bot_last>>
coreVars == <<aggVars, engine, btVars, pmVars, lots, rmVars, stVars>>
indVars == <<ind_data, ind_pc, indicators>>
liveVars == <<live_cycles, live_keys, live_signals, live_filtered>>
auxVars == <<indVars, bt_strategy, liveVars>>
extVars == <<mgrVars, mdVars, botVars, auxVars>>
vars == <<coreVars, extVars>>

(***************************************************************************)
(* Exact arithmetic                                                        *)
(***************************************************************************)
Abs(x) == IF x < 0 THEN -x ELSE x

RECURSIVE GCD(_, _)
GCD(a, b) == IF b = 0 THEN a ELSE GCD(b, a % b)

\* the rational n/d (d # 0) in lowest terms
R(n, d) ==
    LET g == GCD(Abs(n), Abs(d))
        s == IF d < 0 THEN -1 ELSE 1
    IN  <<(s * n) \div g, (s * d) \div g>>

Num(x) == x[1]
Den(x) == x[2]

RAdd(x, y) ==
    LET g == GCD(Den(x), Den(y))
    IN  R(Num(x) * (Den(y) \div g) + Num(y) * (Den(x) \div g),
          (Den(x) \div g) * Den(y))

RNeg(x) == <<-Num(x), Den(x)>>

RSub(x, y) == RAdd(x, RNeg(y))

RMul(x, y) ==
    LET g1 == GCD(Abs(Num(x)), Den(y))
        g2 == GCD(Abs(Num(y)), Den(x))
    IN  IF Num(x) = 0 \/ Num(y) = 0 THEN <<0, 1>>
        ELSE <<(Num(x) \div g1) * (Num(y) \div g2),
               (Den(x) \div g2) * (Den(y) \div g1)>>

\* x / y for y # 0
RDiv(x, y) ==
    RMul(x, IF Num(y) < 0 THEN <<-Den(y), -Num(y)>> ELSE <<Den(y), Num(y)>>)

RLe(x, y) ==
    LET g == GCD(Den(x), Den(y))
    IN  Num(x) * (Den(y) \div g) <= Num(y) * (Den(x) \div g)

RLt(x, y) == RLe(x, y) /\ x # y

RMin(x, y) == IF RLe(x, y) THEN x ELSE y

Zero == <<0, 1>>
One == <<1, 1>>

RMax(x, y) == IF RLe(x, y) THEN y ELSE x

RAbs(x) == <<Abs(Num(x)), Den(x)>>

(***************************************************************************)
(* StrategyManager: the signal aggregator                                  *)
(***************************************************************************)
Sides == {"buy", "sell"}
Symbols == {"UNKNOWN", "BTCUSDT"}
StrategyNames == {"rsi", "grid"}
\* confidences in hundredths
Confidences == {60, 80}

\* longest signal list handed to the aggregator on its own
MaxSignals == 3

Signal == [strategy : StrategyNames, symbol : Symbols, side : Sides,
           confidence : Confidences]

RECURSIVE SeqsUpTo(_, _)
SeqsUpTo(S, n) ==
    IF n = 0 THEN {<<>>}
    ELSE LET shorter == SeqsUpTo(S, n - 1)
         IN  shorter \cup {Append(q, x) : q \in {p \in shorter : Len(p) = n - 1}, x \in S}

\* signals_by_symbol.items(): a dict keeps its keys in order of first insertion
RECURSIVE SymbolsInOrder(_)
SymbolsInOrder(sigs) ==
    IF sigs = <<>> THEN <<>>
    ELSE LET front == SymbolsInOrder(SubSeq(sigs, 1, Len(sigs) - 1))
             sym == sigs[Len(sigs)].symbol
         IN  IF \E j \in 1..Len(front) : front[j] = sym THEN front
             ELSE Append(front, sym)

\* signals_by_symbol[symbol]: the signals of one symbol, in input order
GroupOf(sigs, sym) ==
    LET Has(x) == x.symbol = sym IN SelectSeq(sigs, Has)

\* where list.sort(key=confidence, reverse=True) puts x among the already sorted
\* elements that came before it in the list: after every element whose
\* confidence is greater or equal (the sort is stable, also with reverse=True)
InsertUnstable(sorted, x) ==
    LET before == SelectSeq(sorted, LAMBDA y : y.confidence > x.confidence)
        after == SelectSeq(sorted, LAMBDA y : y.confidence <= x.confidence)
    IN  before \o <<x>> \o after

InsertByConfidence(sorted, x) ==
    LET before == SelectSeq(sorted, LAMBDA y : y.confidence >= x.confidence)
        after == SelectSeq(sorted, LAMBDA y : y.confidence < x.confidence)
    IN  before \o <<x>> \o after

RECURSIVE SortByConfidence(_)
SortByConfidence(sigs) ==
    IF sigs = <<>> THEN <<>>
    ELSE InsertByConfidence(SortByConfidence(SubSeq(sigs, 1, Len(sigs) - 1)),
                            sigs[Len(sigs)])

AlwaysCoherent(sigs) == TRUE

signals_are_coherent(sigs) ==
    IF Len(sigs) <= 1 THEN TRUE
    ELSE Cardinality({sigs[j].side : j \in 1..Len(sigs)}) = 1

RECURSIVE BestOf(_, _)
\* the loop over signals_by_symbol.items(), symbols being the keys still to visit
BestOf(sigs, symbols) ==
    IF symbols = <<>> THEN <<>>
    ELSE LET symbol_signals == SortByConfidence(GroupOf(sigs, Head(symbols)))
             rest == BestOf(sigs, Tail(symbols))
         IN  IF signals_are_coherent(symbol_signals)
             THEN <<symbol_signals[1]>> \o rest
             ELSE rest

filter_and_prioritize_signals(sigs) ==
    IF sigs = <<>> THEN <<>> ELSE BestOf(sigs, SymbolsInOrder(sigs))

\* the lists the aggregator is called with
SignalLists == SeqsUpTo(Signal, MaxSignals)

AggInit ==
    /\ signals_in \in SignalLists
    /\ best_signals = <<>>
    /\ agg_pc = "start"

FilterAndPrioritize ==
    /\ agg_pc = "start"
    /\ best_signals' = filter_and_prioritize_signals(signals_in)
    /\ agg_pc' = "done"
    /\ UNCHANGED <<signals_in, engine, extVars, btVars, pmVars, lots, rmVars, stVars>>

(***************************************************************************)
(* BacktestEngine                                                          *)
(***************************************************************************)
\* the `if len(current_data) < 50` lookback of run_backtest
MinLookback == 50
\* longest test window replayed
MaxBars == 51
\* longest list a strategy hands to analyze_market for one bar
MaxBarSignals == 2
\* most signals the strategy emits in one run
MaxFills == 2

\* initial_capital: the constructor's default and a small account
InitialCapitals == {<<10000, 1>>, <<10, 1>>}
\* closing prices of the bars (positive)
Closes == {<<100, 1>>, <<125, 1>>, <<250, 1>>}
\* confidences RSIStrategy._calculate_confidence can return (it clamps to
\* [0.1, 1.0]): 0.8 when the RSI is at 40, 0.1 when the RSI has jumped past 75
BarConfidences == {10, 80}
\* run_backtest enables one strategy: all signals of a run carry its name
BarSignal == [strategy : {"rsi"}, symbol : Symbols, side : Sides,
              confidence : BarConfidences]
\* the lists the strategy may hand to analyze_market for one bar
BarSignalLists == SeqsUpTo(BarSignal, MaxBarSignals)

\* the strategies whose signals carry 'symbol': latest.name, the index label
\* of the last row of the frame they were given
LabelledStrategies == {"rsi", "macd", "dca", "scalping", "trend_following"}

SameLabel(b) == "UNKNOWN"

\* the index label of bar b of the test data (labels are distinct)
BarLabel(b) == ToString(b)

\* the signals strategy name emits at bar b, given their sides and confidences
Emitted(name, raw, b) ==
    IF name \in LabelledStrategies
    THEN [j \in 1..Len(raw) |->
            [raw[j] EXCEPT !.strategy = name, !.symbol = BarLabel(b)]]
    ELSE raw

\* the 2% of _execute_backtest_trade
PositionFraction == <<1, 50>>
\* the 0.001 below which a sold position is dropped
DustThreshold == <<1, 1000>>

NoPositions == [s \in {} |-> Zero]

\* dict with key sym set to rec (added when absent)
Put(pos, sym, rec) ==
    [s \in DOMAIN pos \cup {sym} |-> IF s = sym THEN rec ELSE pos[s]]

\* del dict[sym]
Del(pos, sym) == [s \in DOMAIN pos \ {sym} |-> pos[s]]

PlainAvgPrice(old_qty, old_price, qty, price) ==
    RDiv(RAdd(old_price, price), <<2, 1>>)

\* new_avg_price = ((old_qty * old_price) + (qty * price)) / new_qty
WeightedAvgPrice(old_qty, old_price, qty, price) ==
    RDiv(RAdd(RMul(old_qty, old_price), RMul(qty, price)), RAdd(old_qty, qty))

RequestedAlways(requested, held) == requested

\* sell_quantity = min(requested, position['quantity'])
SellQuantity(requested, held) == RMin(requested, held)

\* profit = (current_price - position['avg_price']) * sell_quantity
RealizedProfit(price, avg_price, qty) == RMul(RSub(price, avg_price), qty)

SoldOutStrict(qty) == RLt(qty, DustThreshold)

SoldOutNever(qty) == FALSE

\* if position['quantity'] <= 0.001: del positions[symbol]
SoldOut(qty) == RLe(qty, DustThreshold)

\* position_size = self.capital * 0.02 / current_price
PositionSize(cap, price) == RDiv(RMul(cap, PositionFraction), price)

\* the buy branch; led = [capital, positions, trades]
BacktestBuy(led, symbol, price, name) ==
    LET position_size == PositionSize(led.capital, price)
        cost == RMul(position_size, price)
    IN  IF ~RLe(cost, led.capital) THEN led
        ELSE [led EXCEPT
                !.capital = RSub(led.capital, cost),
                !.positions =
                    IF symbol \in DOMAIN led.positions
                    THEN LET old == led.positions[symbol]
                         IN  Put(led.positions, symbol,
                                 [old EXCEPT
                                    !.quantity = RAdd(old.quantity, position_size),
                                    !.avg_price = WeightedAvgPrice(old.quantity,
                                        old.avg_price, position_size, price)])
                    ELSE Put(led.positions, symbol,
                             [quantity |-> position_size, avg_price |-> price,
                              entry_time |-> name])]

SellWithoutRecord(led, sig, price, name) ==
    LET position == led.positions[sig.symbol]
        sell_quantity == SellQuantity(PositionSize(led.capital, price), position.quantity)
        left == RSub(position.quantity, sell_quantity)
    IN  [led EXCEPT
            !.capital = RAdd(led.capital, RMul(sell_quantity, price)),
            !.positions = IF SoldOut(left) THEN Del(led.positions, sig.symbol)
                          ELSE Put(led.positions, sig.symbol,
                                   [position EXCEPT !.quantity = left])]

\* the sell branch, taken only when the symbol has a position
BacktestSell(led, sig, price, name) ==
    LET position == led.positions[sig.symbol]
        position_size == PositionSize(led.capital, price)
        sell_quantity == SellQuantity(position_size, position.quantity)
        proceeds == RMul(sell_quantity, price)
        profit == RealizedProfit(price, position.avg_price, sell_quantity)
        left == RSub(position.quantity, sell_quantity)
    IN  [capital |-> RAdd(led.capital, proceeds),
         positions |-> IF SoldOut(left) THEN Del(led.positions, sig.symbol)
                       ELSE Put(led.positions, sig.symbol,
                                [position EXCEPT !.quantity = left]),
         trades |-> Append(led.trades,
                      [timestamp |-> name, symbol |-> sig.symbol, side |-> sig.side,
                       quantity |-> sell_quantity, price |-> price,
                       profit |-> profit, strategy |-> sig.strategy])]

execute_backtest_trade(led, sig, price, name) ==
    IF sig.side = "buy" THEN BacktestBuy(led, sig.symbol, price, name)
    ELSE IF sig.side = "sell" /\ sig.symbol \in DOMAIN led.positions
         THEN BacktestSell(led, sig, price, name)
         ELSE led

RECURSIVE PositionsValue(_, _, _)
\* the loop of _calculate_current_equity over the symbols todo
PositionsValue(pos, todo, price) ==
    IF todo = {} THEN Zero
    ELSE LET s == CHOOSE x \in todo : TRUE
         IN  RAdd(RMul(pos[s].quantity, price), PositionsValue(pos, todo \ {s}, price))

CapitalOnly(cap, pos, price) == cap

calculate_current_equity(cap, pos, price) ==
    RAdd(cap, PositionsValue(pos, DOMAIN pos, price))

RECURSIVE RSum(_)
\* sum(xs) of a list of numbers
RSum(xs) == IF xs = <<>> THEN Zero ELSE RAdd(Head(xs), RSum(Tail(xs)))

\* float('inf'): the one pair with denominator 0
Infinity == <<1, 0>>

NoTradesNever(trs) == FALSE

\* if not self.trades
NoTrades(trs) == trs = <<>>

FactorOverAll(profits) ==
    LET gross_loss == RAbs(RSum(profits))
    IN  IF RLt(Zero, gross_loss)
        THEN RDiv(RSum(SelectSeq(profits, LAMBDA x : RLt(Zero, x))), gross_loss)
        ELSE Infinity

\* gross_profit / gross_loss if gross_loss > 0 else float('inf')
ProfitFactor(profits) ==
    LET winning_trades == SelectSeq(profits, LAMBDA x : RLt(Zero, x))
        gross_profit == RSum(winning_trades)
        gross_loss == RAbs(RSum(SelectSeq(profits, LAMBDA x : RLt(x, Zero))))
    IN  IF RLt(Zero, gross_loss) THEN RDiv(gross_profit, gross_loss) ELSE Infinity

RECURSIVE DrawdownFromFirst(_, _, _)
DrawdownFromFirst(values, peak, max_drawdown) ==
    IF values = <<>> THEN max_drawdown
    ELSE LET drawdown == RDiv(RSub(peak, Head(values)), peak)
         IN  DrawdownFromFirst(Tail(values), peak,
                 IF RLt(max_drawdown, drawdown) THEN drawdown ELSE max_drawdown)

RECURSIVE DrawdownLoop(_, _, _)
\* `for value in equity_values`, entered with peak and max_drawdown
DrawdownLoop(values, peak, max_drawdown) ==
    IF values = <<>> THEN max_drawdown
    ELSE LET value == Head(values)
             new_peak == IF RLt(peak, value) THEN value ELSE peak
             drawdown == RDiv(RSub(new_peak, value), new_peak)
         IN  DrawdownLoop(Tail(values), new_peak,
                 IF RLt(max_drawdown, drawdown) THEN drawdown ELSE max_drawdown)

\* peak = equity_values[0]; max_drawdown = 0; the loop
MaxDrawdown(equity_values) == DrawdownLoop(equity_values, equity_values[1], Zero)

\* _calculate_performance_metrics: the report without its Sharpe ratio and its
\* averages.  Past the guard, an empty equity curve fails at equity_curve[-1]
\* and an empty trade list at the division of win_rate.
calculate_performance_metrics ==
    IF NoTrades(trades) THEN [error |-> "Aucun trade execute"]
    ELSE IF equity_curve = <<>> THEN [raised |-> "IndexError"]
    ELSE IF trades = <<>> THEN [raised |-> "ZeroDivisionError"]
    ELSE LET profits == [j \in 1..Len(trades) |-> trades[j].profit]
             winning_trades == SelectSeq(profits, LAMBDA x : RLt(Zero, x))
             final_equity == equity_curve[Len(equity_curve)].equity
         IN  [total_trades |-> Len(trades),
              winning_trades |-> Len(winning_trades),
              losing_trades |-> Len(profits) - Len(winning_trades),
              win_rate |-> R(Len(winning_trades), Len(profits)),
              total_return |->
                  RDiv(RSub(final_equity, initial_capital), initial_capital),
              profit_factor |-> ProfitFactor(profits),
              max_drawdown |->
                  MaxDrawdown([j \in 1..Len(equity_curve) |-> equity_curve[j].equity]),
              initial_capital |-> initial_capital,
              final_equity |-> final_equity]

NoLots == [s \in Symbols |-> [buys |-> <<>>, sold |-> FALSE]]

\* the buys merged into the position of sym, given the ledger change old -> new
LotsAfter(sig_side, sym, had, qty, price) ==
    IF sig_side = "buy"
    THEN [lots EXCEPT ![sym] =
            IF had THEN [@ EXCEPT !.buys = Append(@, <<qty, price>>)]
            ELSE [buys |-> <<<<qty, price>>>>, sold |-> FALSE]]
    ELSE [lots EXCEPT ![sym].sold = TRUE]

BTInit ==
    /\ initial_capital \in (IF engine = "backtest" THEN InitialCapitals ELSE {<<10000, 1>>})
    /\ capital = initial_capital
    /\ positions = NoPositions
    /\ trades = <<>>
    /\ equity_curve = <<>>
    /\ bt_pc = IF engine = "backtest" THEN "idle" ELSE "off"
    /\ n_bars = 0
    /\ bar = 0
    /\ close = Zero
    /\ signals = <<>>
    /\ sig_k = 1
    /\ n_fills = 0
    /\ bt_result = [none |-> TRUE]
    /\ bt_runs = 0

LookbackOneLess(n) == n < MinLookback - 1

\* if len(current_data) < 50: continue
TooShort(n) == n < MinLookback

\* run_backtest called on a window of n bars, up to the first iteration of
\* its loop; the ledger fields are not assigned
StartRun(n) ==
    /\ n_bars' = n
    /\ IF n = 0
       THEN /\ bt_result' = [error |-> "Aucune donnee pour la periode specifiee"]
            /\ bt_pc' = "done"
       ELSE /\ bt_pc' = "loop"
            /\ UNCHANGED bt_result
    /\ bar' = 0
    /\ bt_runs' = bt_runs + 1
    /\ UNCHANGED <<initial_capital, capital, positions, trades, equity_curve, close,
                   signals, sig_k, n_fills, lots>>

\* run_backtest on a BacktestEngine just constructed, as run_strategy_backtest
\* calls it
RunBacktest ==
    /\ engine = "backtest"
    /\ bt_pc = "idle"
    /\ \E n \in 0..MaxBars : StartRun(n)
    /\ UNCHANGED <<aggVars, engine, extVars, pmVars, rmVars, stVars>>

\* an iteration with fewer than 50 bars of history: continue
SkipBar ==
    /\ engine = "backtest"
    /\ bt_pc = "loop"
    /\ bar < n_bars
    /\ TooShort(bar + 1)
    /\ bar' = bar + 1
    /\ UNCHANGED <<initial_capital, capital, positions, trades, equity_curve, bt_pc,
                   n_bars, close, signals, sig_k, n_fills, bt_result, lots>>
    /\ UNCHANGED bt_runs
    /\ UNCHANGED <<aggVars, engine, extVars, pmVars, rmVars, stVars>>

\* an iteration with enough history: analyze_market on the prefix.  The strategy
\* is any source of well-formed signals; its list goes through the aggregator.
AnalyzeBar ==
    /\ engine = "backtest"
    /\ bt_pc = "loop"
    /\ bar < n_bars
    /\ ~TooShort(bar + 1)
    /\ \E c \in Closes, raw \in BarSignalLists :
        /\ n_fills + Len(raw) <= MaxFills
        /\ close' = c
        /\ signals' = filter_and_prioritize_signals(Emitted(bt_strategy, raw, bar))
        /\ n_fills' = n_fills + Len(raw)
    /\ sig_k' = 1
    /\ bt_pc' = "exec"
    /\ UNCHANGED <<initial_capital, capital, positions, trades, equity_curve,
                   n_bars, bar, bt_result, lots>>
    /\ UNCHANGED bt_runs
    /\ UNCHANGED <<aggVars, engine, extVars, pmVars, rmVars, stVars>>

\* one iteration of `for signal in signals`: _execute_backtest_trade
ExecuteBacktestTrade ==
    /\ engine = "backtest"
    /\ bt_pc = "exec"
    /\ sig_k <= Len(signals)
    /\ LET sig == signals[sig_k]
           led == [capital |-> capital, positions |-> positions, trades |-> trades]
           new == execute_backtest_trade(led, sig, close, bar)
       IN  /\ capital' = new.capital
           /\ positions' = new.positions
           /\ trades' = new.trades
           /\ lots' = IF new = led THEN lots
                      ELSE LotsAfter(sig.side, sig.symbol,
                                     sig.symbol \in DOMAIN positions,
                                     PositionSize(capital, close), close)
    /\ sig_k' = sig_k + 1
    /\ UNCHANGED <<initial_capital, equity_curve, bt_pc, n_bars, bar, close, signals,
                   n_fills, bt_result>>
    /\ UNCHANGED bt_runs
    /\ UNCHANGED <<aggVars, engine, extVars, pmVars, rmVars, stVars>>

\* the end of the iteration: the equity point of the bar
RecordEquity ==
    /\ engine = "backtest"
    /\ bt_pc = "exec"
    /\ sig_k > Len(signals)
    /\ equity_curve' = Append(equity_curve,
            [timestamp |-> bar,
             equity |-> calculate_current_equity(capital, positions, close),
             capital |-> capital])
    /\ bar' = bar + 1
    /\ bt_pc' = "loop"
    /\ UNCHANGED <<initial_capital, capital, positions, trades, n_bars, close, signals,
                   sig_k, n_fills, bt_result, lots>>
    /\ UNCHANGED bt_runs
    /\ UNCHANGED <<aggVars, engine, extVars, pmVars, rmVars, stVars>>

\* after the last bar: return self._calculate_performance_metrics()
FinishBacktest ==
    /\ engine = "backtest"
    /\ bt_pc = "loop"
    /\ bar = n_bars
    /\ bt_result' = calculate_performance_metrics
    /\ bt_pc' = "done"
    /\ UNCHANGED <<initial_capital, capital, positions, trades, equity_curve, n_bars,
                   bar, close, signals, sig_k, n_fills, lots>>
    /\ UNCHANGED bt_runs
    /\ UNCHANGED <<aggVars, engine, extVars, pmVars, rmVars, stVars>>

\* longest trade list and longest equity curve handed to the metrics
MaxTrades == 3
MaxCurve == 4

\* the profits of the trades and the equities of the points
TradeProfits == {<<100, 1>>, <<50, 1>>, <<-30, 1>>, <<0, 1>>}
EquityValues == {<<9000, 1>>, <<9500, 1>>, <<10000, 1>>, <<11000, 1>>}

\* a Trade of _execute_backtest_trade's sell branch with the given profit
TradeWithProfit(x) ==
    [timestamp |-> MinLookback, symbol |-> "UNKNOWN", side |-> "sell",
     quantity |-> One, price |-> <<100, 1>>, profit |-> x, strategy |-> "rsi"]

\* an equity point of a ledger without open positions
EquityPoint(j, x) == [timestamp |-> MinLookback - 2 + j, equity |-> x, capital |-> x]

TradeLists ==
    {[j \in 1..Len(ps) |-> TradeWithProfit(ps[j])] : ps \in SeqsUpTo(TradeProfits, MaxTrades)}
CurveLists ==
    {[j \in 1..Len(vs) |-> EquityPoint(j, vs[j])] : vs \in SeqsUpTo(EquityValues, MaxCurve)}

\* every trade list with a one-point curve, and every curve with one trade
MetricsInputs ==
    {<<t, <<EquityPoint(1, <<10000, 1>>)>> >> : t \in TradeLists}
        \cup {<<<<TradeWithProfit(<<100, 1>>)>>, c>> : c \in CurveLists \ {<<>>}}

\* run_backtest calls on one BacktestEngine object
MaxRuns == 2

\* the windows of a further run: empty, or past the lookback
LaterWindows == {0, MaxBars}

\* run_backtest called again on a BacktestEngine that has finished a run
RunAgain ==
    /\ engine = "backtest"
    /\ bt_pc = "done"
    /\ bt_runs < MaxRuns
    /\ \E n \in LaterWindows : StartRun(n)
    /\ UNCHANGED <<aggVars, engine, extVars, pmVars, rmVars, stVars>>

(***************************************************************************)
(* PortfolioManager                                                        *)
(***************************************************************************)
\* place_order calls made on one portfolio
MaxOrders == 2

\* the `amount` arguments tried (quote currency)
Amounts == {<<0, 1>>, <<2, 1>>, <<3, 1>>, <<20000, 1>>}
\* the `price` arguments tried; None leaves the price to _get_current_price
NoPrice == <<0, 1>>
Prices == {NoPrice, <<1000, 1>>}
Modes == {"paper", "live"}

\* base_prices.get(symbol, 100)
get_current_price(symbol) ==
    CASE symbol = "BTCUSDT" -> <<45000, 1>>
      [] symbol = "ETHUSDT" -> <<3000, 1>>
      [] symbol = "ADAUSDT" -> <<1, 2>>
      [] symbol = "DOTUSDT" -> <<8, 1>>
      [] symbol = "LINKUSDT" -> <<15, 1>>
      [] OTHER -> <<100, 1>>

\* current_price = price or self._get_current_price(symbol): None and 0 are falsy
CurrentPrice(symbol, price) ==
    IF price = NoPrice THEN get_current_price(symbol) ELSE price

Rejected(err) == [success |-> FALSE, error |-> err]

AcceptAnyCost(cost, bal) == FALSE

\* if cost > self.balance: return {'success': False, ...}
InsufficientBalance(cost, bal) == RLt(bal, cost)

\* the trade record and the mapping returned by an executed order
TradeRecord(call, now, qty, price, profit) ==
    [timestamp |-> now, symbol |-> call.symbol, side |-> call.side,
     quantity |-> qty, price |-> price, amount |-> call.amount, profit |-> profit]

Executed(call, n, qty, price, profit) ==
    [success |-> TRUE, order_id |-> n, symbol |-> call.symbol, side |-> call.side,
     quantity |-> qty, price |-> price, entry_price |-> price, profit |-> profit]

OrderSide(side) == side

\* 'side': 'long', whatever the side of the order that opens the position
PositionSide(side) == "long"

\* _place_paper_order; pf = [balance, positions, trade_history, result]
PaperBuy(pf, call, now) ==
    LET current_price == CurrentPrice(call.symbol, call.price)
        cost == call.amount
        quantity == RDiv(cost, current_price)
        held == call.symbol \in DOMAIN pf.positions
        new_qty == RAdd(pf.positions[call.symbol].quantity, quantity)
        history == Append(pf.trade_history,
                          TradeRecord(call, now, quantity, current_price, Zero))
    IN  IF InsufficientBalance(cost, pf.balance)
        THEN [pf EXCEPT !.result = Rejected("Solde insuffisant")]
        ELSE IF held /\ new_qty = Zero
        \* ZeroDivisionError in new_avg_price, after the balance was debited;
        \* place_order catches it
        THEN [pf EXCEPT !.balance = RSub(pf.balance, cost),
                        !.result = Rejected("float division by zero")]
        ELSE [balance |-> RSub(pf.balance, cost),
              positions |->
                  IF held
                  THEN LET old == pf.positions[call.symbol]
                       IN  Put(pf.positions, call.symbol,
                               [old EXCEPT
                                  !.quantity = new_qty,
                                  !.avg_price = WeightedAvgPrice(old.quantity,
                                      old.avg_price, quantity, current_price)])
                  ELSE Put(pf.positions, call.symbol,
                           [quantity |-> quantity, avg_price |-> current_price,
                            side |-> PositionSide(call.side),
                            entry_time |-> now]),
              trade_history |-> history,
              result |-> Executed(call, Len(history), quantity, current_price, Zero)]

\* the guard of the else branch: symbol in self.positions
HasPosition(pf, call) == call.symbol \in DOMAIN pf.positions

PaperSell(pf, call, now) ==
    IF ~HasPosition(pf, call)
    THEN [pf EXCEPT !.result = Rejected("Aucune position a vendre")]
    ELSE
    LET current_price == CurrentPrice(call.symbol, call.price)
        position == pf.positions[call.symbol]
        sell_quantity == SellQuantity(RDiv(call.amount, current_price), position.quantity)
        proceeds == RMul(sell_quantity, current_price)
        profit == RealizedProfit(current_price, position.avg_price, sell_quantity)
        left == RSub(position.quantity, sell_quantity)
        history == Append(pf.trade_history,
                          TradeRecord(call, now, sell_quantity, current_price, profit))
    IN  [balance |-> RAdd(pf.balance, proceeds),
         positions |-> IF SoldOut(left) THEN Del(pf.positions, call.symbol)
                       ELSE Put(pf.positions, call.symbol,
                                [position EXCEPT !.quantity = left]),
         trade_history |-> history,
         result |-> Executed(call, Len(history), sell_quantity, current_price, profit)]

place_paper_order(pf, call, now) ==
    IF call.side = "buy" THEN PaperBuy(pf, call, now) ELSE PaperSell(pf, call, now)

\* place_order: paper orders are simulated, real ones are not implemented
place_order(pf, call, now) ==
    IF mode = "paper" THEN place_paper_order(pf, call, now)
    ELSE [pf EXCEPT !.result = Rejected("Mode reel non implemente")]

\* ---- the snapshot data/portfolio.json ----
\* PortfolioManager objects initialised from the file after the first one
MaxRestarts == 1

NoFile == [exists |-> FALSE]

\* the Python types json.dump writes as they are
JsonNative == {"float", "str"}

TimesAsDatetime(field) ==
    IF field \in {"timestamp", "entry_time"} THEN "datetime"
    ELSE IF field \in {"symbol", "side", "last_updated"} THEN "str"
    ELSE "float"

\* the Python type of the value stored under each key of the ledger: the
\* times are datetime.now().isoformat() strings
PyTypeOf(field) ==
    IF field \in {"symbol", "side", "timestamp", "entry_time", "last_updated"}
    THEN "str"
    ELSE "float"

\* str(value) of a value that is not a string: a string, so not the value
\* itself; the times of the ledger are natural numbers here and a negative
\* number stands for the string of one
StrOf(v) == -1 - v

\* json.dump(..., default=str) of one value: a number literal that reads back
\* as the same float, a string, or str(value) for any other type
json_dump(field, v) ==
    IF PyTypeOf(field) \in JsonNative
    THEN [json |-> IF PyTypeOf(field) = "str" THEN "string" ELSE "number",
          text |-> v]
    ELSE [json |-> "string", text |-> StrOf(v)]

\* json.load of one value
json_load(j) == j.text

DumpRecord(rec) == [f \in DOMAIN rec |-> json_dump(f, rec[f])]
LoadRecord(obj) == [f \in DOMAIN obj |-> json_load(obj[f])]

\* _save_portfolio(): the document written
save_portfolio(pf, now) ==
    [exists |-> TRUE,
     balance |-> json_dump("balance", pf.balance),
     positions |-> [s \in DOMAIN pf.positions |-> DumpRecord(pf.positions[s])],
     trade_history |-> [k \in 1..Len(pf.trade_history) |->
                            DumpRecord(pf.trade_history[k])],
     last_updated |-> json_dump("last_updated", now)]

\* the ledger of a PortfolioManager as __init__ leaves it
Constructed ==
    [balance |-> <<10000, 1>>, positions |-> NoPositions, trade_history |-> <<>>]

\* _load_portfolio() on a constructed object: the ledger afterwards
load_portfolio(file) ==
    IF ~file.exists THEN Constructed
    ELSE [balance |-> json_load(file.balance),
          positions |-> [s \in DOMAIN file.positions |->
                            LoadRecord(file.positions[s])],
          trade_history |-> [k \in 1..Len(file.trade_history) |->
                                LoadRecord(file.trade_history[k])]]

\* _place_paper_order saves after appending the trade record, so only an
\* executed order writes the file
FileAfter(file, new, now) ==
    IF new.result.success THEN save_portfolio(new, now) ELSE file

PMInit ==
    /\ mode \in (IF engine = "portfolio" THEN Modes ELSE {"paper"})
    /\ balance = <<10000, 1>>
    /\ pm_positions = NoPositions
    /\ trade_history = <<>>
    /\ pm_clock = 0
    /\ pm_call = [none |-> TRUE]
    /\ pm_result = [none |-> TRUE]
    /\ portfolio_file = NoFile
    /\ pm_restarts = 0

PlaceOrder ==
    /\ engine = "portfolio"
    /\ pm_clock < MaxOrders
    /\ \E sym \in Symbols, sd \in Sides, amt \in Amounts, pr \in Prices :
        LET call == [symbol |-> sym, side |-> sd, amount |-> amt, price |-> pr]
            pf == [balance |-> balance, positions |-> pm_positions,
                   trade_history |-> trade_history, result |-> pm_result]
            new == place_order(pf, call, pm_clock + 1)
        IN  /\ pm_call' = call
            /\ balance' = new.balance
            /\ pm_positions' = new.positions
            /\ trade_history' = new.trade_history
            /\ pm_result' = new.result
            /\ portfolio_file' = FileAfter(portfolio_file, new, pm_clock + 1)
            /\ lots' = IF new.result.success
                       THEN LotsAfter(sd, sym, sym \in DOMAIN pm_positions,
                                      new.result.quantity, new.result.price)
                       ELSE lots
    /\ pm_clock' = pm_clock + 1
    /\ UNCHANGED <<mode, pm_restarts>>
    /\ UNCHANGED <<aggVars, engine, extVars, btVars, rmVars, stVars>>

\* a new PortfolioManager(config) and its initialize(), after the first one
Initialize ==
    /\ engine = "portfolio"
    /\ pm_restarts < MaxRestarts
    /\ \E pf \in {load_portfolio(portfolio_file)} :
        /\ balance' = pf.balance
        /\ pm_positions' = pf.positions
        /\ trade_history' = pf.trade_history
    /\ pm_restarts' = pm_restarts + 1
    /\ UNCHANGED <<mode, pm_clock, pm_call, pm_result, portfolio_file, lots>>
    /\ UNCHANGED <<aggVars, engine, extVars, btVars, rmVars, stVars>>

(***************************************************************************)
(* RiskManager                                                             *)
(***************************************************************************)
\* longest signal list handed to filter_signals
MaxRiskSignals == 2
\* trades recorded in RiskManager.trade_history
MaxHistory == 5
\* update_daily_pnl calls on one manager
MaxPnlUpdates == 1
\* record_trade keeps the last 1000 trades
HistoryCap == 1000

\* a confidence in hundredths as a number
Hundredths(c) == R(c, 100)

\* config.get('position_sizing', 'kelly'); "martingale" is a name the manager
\* does not know
SizingMethods == {"fixed", "percentage", "kelly", "volatility", "martingale"}
\* config.get('default_risk_per_trade', 0.02): absent, or set to 5%
RiskPerTrade == {<<1, 50>>, <<1, 20>>}
\* the pnl arguments of update_daily_pnl
PnlUpdates == {<<-1, 20>>, <<-1, 10>>}
\* the symbols a portfolio may hold
PositionSymbols ==
    {"BTCUSDT", "ETHUSDT", "ADAUSDT", "DOTUSDT", "LINKUSDT", "UNKNOWN"}
\* the account balances handed to calculate_position_size
Balances == {<<0, 1>>, <<10000, 1>>}

\* the signals handed to filter_signals: on either side of the 0.5 confidence
FilterSignal == [strategy : {"rsi"}, symbol : Symbols, side : Sides,
                 confidence : {40, 50}]
FilterSignalLists == SeqsUpTo(FilterSignal, MaxRiskSignals)
\* the signals handed to calculate_position_size
SizingSignal == [strategy : StrategyNames, symbol : {"BTCUSDT"}, side : {"buy"},
                 confidence : {0, 100}]
\* the trade results handed to record_trade
TradeResult == {[strategy |-> "rsi", profit |-> <<100, 1>>],
                [strategy |-> "rsi", profit |-> <<-50, 1>>],
                [strategy |-> "grid", profit |-> <<-50, 1>>]}

RECURSIVE PositionsAfterBuys(_, _, _)
\* PortfolioManager.get_current_positions() after one paper buy of 100 (quote
\* currency) on each symbol of todo, on a fresh paper portfolio
PositionsAfterBuys(pf, todo, now) ==
    IF todo = {} THEN pf.positions
    ELSE LET sym == CHOOSE x \in todo : TRUE
             call == [symbol |-> sym, side |-> "buy", amount |-> <<100, 1>>,
                      price |-> NoPrice]
         IN  PositionsAfterBuys(place_paper_order(pf, call, now), todo \ {sym}, now + 1)

FreshPortfolio ==
    [balance |-> <<10000, 1>>, positions |-> NoPositions, trade_history |-> <<>>,
     result |-> [none |-> TRUE]]

\* the positions dicts handed to filter_signals
CurrentPositions ==
    {PositionsAfterBuys(FreshPortfolio, S, 1) : S \in SUBSET PositionSymbols}

\* _should_execute_signal
should_execute_signal(pnl, max_loss, signal, current_positions) ==
    IF RLt(pnl, RNeg(max_loss)) THEN FALSE
    ELSE IF Cardinality(DOMAIN current_positions) >= 5 THEN FALSE
    ELSE IF /\ signal.symbol \in DOMAIN current_positions
            /\ current_positions[signal.symbol].side # signal.side THEN FALSE
    ELSE IF signal.confidence < 50 THEN FALSE
    ELSE TRUE

filter_signals(pnl, max_loss, sigs, current_positions) ==
    SelectSeq(sigs, LAMBDA s : should_execute_signal(pnl, max_loss, s, current_positions))

FixedHundred(account_balance) == <<100, 1>>

\* min(100, account_balance * 0.1)
fixed_position_size(account_balance) ==
    RMin(<<100, 1>>, RMul(account_balance, <<1, 10>>))

\* account_balance * risk_per_trade
percentage_position_size(risk_per_trade, account_balance) ==
    RMul(account_balance, risk_per_trade)

RECURSIVE SumProfits(_)
SumProfits(ts) ==
    IF ts = <<>> THEN Zero ELSE RAdd(Head(ts).profit, SumProfits(Tail(ts)))

\* np.mean([t['profit'] for t in ts]) for a non-empty list
MeanProfit(ts) == RDiv(SumProfits(ts), <<Len(ts), 1>>)

\* _get_strategy_stats: (win_rate, avg_win, avg_loss)
get_strategy_stats(history, strategy_name) ==
    LET strategy_trades == SelectSeq(history, LAMBDA t : t.strategy = strategy_name)
        wins == SelectSeq(strategy_trades, LAMBDA t : RLt(Zero, t.profit))
        losses == SelectSeq(strategy_trades, LAMBDA t : RLt(t.profit, Zero))
    IN  IF strategy_trades = <<>>
        THEN [win_rate |-> <<1, 2>>, avg_win |-> One, avg_loss |-> One]
        ELSE [win_rate |-> R(Len(wins), Len(strategy_trades)),
              avg_win |-> IF wins # <<>> THEN MeanProfit(wins) ELSE One,
              avg_loss |-> IF losses # <<>> THEN RAbs(MeanProfit(losses)) ELSE One]

\* _kelly_position_size
kelly_position_size(history, risk_per_trade, signal, account_balance) ==
    LET stats == get_strategy_stats(history, signal.strategy)
    IN  IF stats.win_rate = Zero \/ stats.avg_loss = Zero
        THEN percentage_position_size(risk_per_trade, account_balance)
        ELSE LET b == RDiv(stats.avg_win, stats.avg_loss)
                 p == stats.win_rate
                 q == RSub(One, stats.win_rate)
                 kelly_fraction == RDiv(RSub(RMul(b, p), q), b)
             IN  RMul(account_balance, RMax(Zero, RMin(<<1, 4>>, kelly_fraction)))

\* _volatility_adjusted_size
volatility_adjusted_size(risk_per_trade, signal, account_balance) ==
    RMul(percentage_position_size(risk_per_trade, account_balance),
         RAdd(<<1, 2>>, Hundredths(signal.confidence)))

calculate_position_size(method, history, risk_per_trade, signal, account_balance) ==
    CASE method = "fixed" -> fixed_position_size(account_balance)
      [] method = "percentage" ->
            percentage_position_size(risk_per_trade, account_balance)
      [] method = "kelly" ->
            kelly_position_size(history, risk_per_trade, signal, account_balance)
      [] method = "volatility" ->
            volatility_adjusted_size(risk_per_trade, signal, account_balance)
      [] OTHER -> fixed_position_size(account_balance)

\* RiskManager(config).  A behaviour with engine "risk_filter" exercises the
\* daily statistics and filter_signals, one with engine "risk_sizing" the trade
\* history and calculate_position_size: neither group reads the other's fields.
RMInit ==
    /\ daily_pnl = Zero
    /\ daily_trades = 0
    /\ max_daily_loss = <<1, 20>>
    /\ position_sizing_method \in
            (CASE engine = "risk_sizing" -> SizingMethods
               [] engine = "trade" -> {"kelly", "fixed"}
               [] OTHER -> {"kelly"})
    /\ default_risk_per_trade \in
            (IF engine = "risk_sizing" THEN RiskPerTrade ELSE {<<1, 50>>})
    /\ risk_trade_history = <<>>
    /\ rm_call = [op |-> "init"]
    /\ rm_result = [none |-> TRUE]

UpdateDailyPnl ==
    /\ engine = "risk_filter"
    /\ daily_trades < MaxPnlUpdates
    /\ \E pnl \in PnlUpdates :
        /\ daily_pnl' = RAdd(daily_pnl, pnl)
        /\ rm_call' = [op |-> "update_daily_pnl", pnl |-> pnl]
    /\ daily_trades' = daily_trades + 1
    /\ rm_result' = [none |-> TRUE]
    /\ UNCHANGED <<max_daily_loss, position_sizing_method, default_risk_per_trade,
                   risk_trade_history>>
    /\ UNCHANGED <<aggVars, engine, extVars, btVars, pmVars, lots, stVars>>

ResetDailyStats ==
    /\ engine = "risk_filter"
    /\ daily_pnl' = Zero
    /\ daily_trades' = 0
    /\ rm_call' = [op |-> "reset_daily_stats"]
    /\ rm_result' = [none |-> TRUE]
    /\ UNCHANGED <<max_daily_loss, position_sizing_method, default_risk_per_trade,
                   risk_trade_history>>
    /\ UNCHANGED <<aggVars, engine, extVars, btVars, pmVars, lots, stVars>>

\* the two queries read the manager and write nothing: what one returns after
\* another query is what it returns without it, so a query is taken from the
\* states the constructor and the updates leave
AfterUpdate == rm_call.op \notin {"filter_signals", "calculate_position_size"}

FilterSignals ==
    /\ engine = "risk_filter"
    /\ AfterUpdate
    /\ \E sigs \in FilterSignalLists, held \in CurrentPositions :
        /\ rm_call' = [op |-> "filter_signals", signals |-> sigs,
                       current_positions |-> held]
        /\ rm_result' = filter_signals(daily_pnl, max_daily_loss, sigs, held)
    /\ UNCHANGED <<daily_pnl, daily_trades, max_daily_loss, position_sizing_method,
                   default_risk_per_trade, risk_trade_history>>
    /\ UNCHANGED <<aggVars, engine, extVars, btVars, pmVars, lots, stVars>>

\* record_trade: append, then keep the last 1000
RecordTrade ==
    /\ engine = "risk_sizing"
    /\ Len(risk_trade_history) < MaxHistory
    /\ \E t \in TradeResult :
        LET appended == Append(risk_trade_history, t)
        IN  /\ risk_trade_history' =
                    IF Len(appended) > HistoryCap
                    THEN SubSeq(appended, Len(appended) - HistoryCap + 1, Len(appended))
                    ELSE appended
            /\ rm_call' = [op |-> "record_trade", trade_result |-> t]
    /\ rm_result' = [none |-> TRUE]
    /\ UNCHANGED <<daily_pnl, daily_trades, max_daily_loss, position_sizing_method,
                   default_risk_per_trade>>
    /\ UNCHANGED <<aggVars, engine, extVars, btVars, pmVars, lots, stVars>>

CalculatePositionSize ==
    /\ engine = "risk_sizing"
    /\ AfterUpdate
    /\ \E sig \in SizingSignal, bal \in Balances :
        /\ rm_call' = [op |-> "calculate_position_size", signal |-> sig,
                       account_balance |-> bal]
        /\ rm_result' = calculate_position_size(position_sizing_method,
                            risk_trade_history, default_risk_per_trade, sig, bal)
    /\ UNCHANGED <<daily_pnl, daily_trades, max_daily_loss, position_sizing_method,
                   default_risk_per_trade, risk_trade_history>>
    /\ UNCHANGED <<aggVars, engine, extVars, btVars, pmVars, lots, stVars>>

(***************************************************************************)
(* Strategies                                                              *)
(***************************************************************************)
\* longest frame handed to analyze()
MaxDataLen == 61
\* analyze() calls on one strategy object
MaxAnalyzeCalls == 2
\* largest num_levels handed to GridStrategy
MaxLevels == 10

\* BaseStrategy.name of the six classes
StrategyClasses == {"RSI", "MACD", "Grid", "DCA", "Scalping", "TrendFollowing"}

\* the keys of params that the code modelled here reads: the defaults of
\* get_default_params
DefaultParams ==
    [rsi_period |-> 14, slow_period |-> 26, signal_period |-> 9, slow_ma |-> 50,
     grid_size |-> <<1, 100>>, num_levels |-> 10,
     interval_hours |-> 24, trend_filter |-> TRUE,
     max_drawdown_stop |-> <<1, 5>>, base_amount |-> <<50, 1>>]

\* the defaults updated with the caller's overrides (default_params.update),
\* for the class `name`
ParamSets(name) ==
    CASE name = "RSI" ->
            {[DefaultParams EXCEPT !.rsi_period = p] : p \in {14, 2}}
      [] name = "TrendFollowing" ->
            {[DefaultParams EXCEPT !.slow_ma = p] : p \in {50, 5}}
      [] name = "Grid" ->
            {[DefaultParams EXCEPT !.num_levels = p] : p \in 1..MaxLevels}
      [] name = "DCA" ->
            {[DefaultParams EXCEPT !.interval_hours = p] : p \in {24, 2}}
      [] OTHER -> {DefaultParams}

NoLookback(name, prm) == 0

\* the right-hand side of the first `if len(data) < ...` of each analyze()
Lookback(name, prm) ==
    CASE name = "RSI" -> prm.rsi_period + 1
      [] name = "MACD" -> prm.slow_period + prm.signal_period
      [] name = "Grid" -> 20
      [] name = "DCA" -> 50
      [] name = "Scalping" -> 10
      [] name = "TrendFollowing" -> prm.slow_ma + 10

\* what analyze() reads of a frame besides its length:
\*   cue      which branch of the if / elif the indicators of the last two
\*            bars take (RSI, MACD, Scalping, TrendFollowing)
\*   price    latest['close'] (Grid)
\*   volatile whether `volatility < volatility_threshold` is false (Grid)
\*   uptrend  whether `sma_20 < sma_50` is false on the last bar (DCA)
Cues == {"none", "buy", "sell"}
GridPrices == {<<99, 1>>, <<100, 1>>, <<101, 1>>}
QuietFrame ==
    [cue |-> "none", price |-> <<100, 1>>, volatile |-> FALSE, uptrend |-> FALSE]
Frames(name) ==
    CASE name = "Grid" ->
            {[QuietFrame EXCEPT !.price = p, !.volatile = v] :
                p \in GridPrices, v \in BOOLEAN}
      [] name = "DCA" ->
            {[QuietFrame EXCEPT !.uptrend = u] : u \in BOOLEAN}
      [] OTHER ->
            {[QuietFrame EXCEPT !.cue = c] : c \in Cues}

\* hours that pass on the wall clock between two analyze() calls; DCA is the
\* only class that reads datetime.now()
Elapsed(name) == IF name = "DCA" THEN {0, 1, 2, 23, 24} ELSE {0}
\* len(data): 0, 1 and the lengths around the lookbacks of the six classes
DataLens == {0, 1, 2, 3, 9, 10, 14, 15, 19, 20, 34, 35, 49, 50, 59, 60, MaxDataLen}
\* datetime.now() when the strategy object is constructed, in hours
RunStart == 1

\* a signal of the strategy: on the frame's last index label, or on 'UNKNOWN'
\* for Grid
StrategySignal(name, sd) ==
    [strategy |-> name, symbol |-> "UNKNOWN", side |-> sd,
     confidence |-> IF name = "DCA" THEN 70 ELSE 80]

\* ---- GridStrategy ----
\* Python's range(lo, hi) as a sequence
Range(lo, hi) == [k \in 1..(IF hi > lo THEN hi - lo ELSE 0) |-> lo + k - 1]

\* the indices of the for loop of _setup_grid; -num_levels//2 is
\* (-num_levels)//2 and // rounds towards minus infinity
GridIndices(num_levels) == Range((-num_levels) \div 2, (num_levels \div 2) + 1)

GridLevel(center_price, grid_size, i) ==
    [price |-> RMul(center_price, RAdd(One, RMul(<<i, 1>>, grid_size))),
     side |-> IF i < 0 THEN "buy" ELSE "sell",
     active |-> TRUE, filled |-> FALSE]

\* _setup_grid(center_price): the new self.grid_levels
setup_grid(prm, center_price) ==
    LET idx == GridIndices(prm.num_levels)
    IN  [k \in 1..Len(idx) |-> GridLevel(center_price, prm.grid_size, idx[k])]

should_place_order(current_price, level) ==
    IF ~level.active \/ level.filled THEN FALSE
    ELSE RLt(RDiv(RAbs(RSub(current_price, level.price)), level.price),
             <<1, 1000>>)

create_grid_signal(level) ==
    [strategy |-> "Grid", symbol |-> "UNKNOWN", side |-> level.side,
     confidence |-> 80, price |-> level.price]

RECURSIVE GridSignals(_, _, _)
\* the for loop over self.grid_levels, from level k on
GridSignals(levels, current_price, k) ==
    IF k > Len(levels) THEN <<>>
    ELSE (IF should_place_order(current_price, levels[k])
          THEN <<create_grid_signal(levels[k])>> ELSE <<>>)
         \o GridSignals(levels, current_price, k + 1)

Recenter(levels, prm, fr) == setup_grid(prm, fr.price)

\* `if not self.grid_levels: self._setup_grid(current_price)`
GridAfter(levels, prm, fr) ==
    IF levels = <<>> THEN setup_grid(prm, fr.price) ELSE levels

\* ---- DCAStrategy ----
\* _calculate_current_portfolio_value()
calculate_current_portfolio_value == Zero

RECURSIVE SumAmounts(_)
SumAmounts(history) ==
    IF history = <<>> THEN Zero
    ELSE RAdd(history[1].amount, SumAmounts(Tail(history)))

\* _check_max_drawdown(): whether the drawdown stop is hit
check_max_drawdown(prm, history) ==
    IF history = <<>> THEN FALSE
    ELSE LET total_invested == SumAmounts(history)
             current_value == calculate_current_portfolio_value
         IN  IF RLt(Zero, current_value)
             THEN RLt(prm.max_drawdown_stop,
                      RDiv(RSub(total_invested, current_value), total_invested))
             ELSE FALSE

NeverTooSoon(prm, purchased, now) == FALSE

\* the interval test of _should_purchase; purchased = 0 is None, and an hour
\* is 3600 seconds
TooSoon(prm, purchased, now) ==
    purchased # 0 /\ (now - purchased) * 3600 < prm.interval_hours * 3600

should_purchase(prm, purchased, history, fr, now) ==
    IF TooSoon(prm, purchased, now) THEN FALSE
    ELSE IF prm.trend_filter /\ ~fr.uptrend THEN FALSE
    ELSE IF check_max_drawdown(prm, history) THEN FALSE
    ELSE TRUE

ForgetPurchase(purchased, now) == purchased

\* `self.last_purchase = current_time`
RecordPurchase(purchased, now) == now

\* what analyze() returns and leaves behind once the frame is long enough
PastLookback(name, prm, levels, purchased, history, fr, now) ==
    CASE name = "Grid" ->
            IF ~fr.volatile
            THEN [result |-> <<>>, grid_levels |-> levels,
                  last_purchase |-> purchased]
            ELSE LET grid == GridAfter(levels, prm, fr)
                 IN  [result |-> GridSignals(grid, fr.price, 1),
                      grid_levels |-> grid, last_purchase |-> purchased]
      [] name = "DCA" ->
            IF should_purchase(prm, purchased, history, fr, now)
            THEN [result |-> <<StrategySignal(name, "buy")>>,
                  grid_levels |-> levels,
                  last_purchase |-> RecordPurchase(purchased, now)]
            ELSE [result |-> <<>>, grid_levels |-> levels,
                  last_purchase |-> purchased]
      [] OTHER ->
            \* if / elif: at most one signal, no state kept
            [result |-> IF fr.cue = "none" THEN <<>>
                        ELSE <<StrategySignal(name, fr.cue)>>,
             grid_levels |-> levels, last_purchase |-> purchased]

\* analyze(data) with len(data) = n at wall-clock time now
analyze(name, prm, levels, purchased, history, n, fr, now) ==
    IF n < Lookback(name, prm)
    THEN [result |-> <<>>, grid_levels |-> levels, last_purchase |-> purchased]
    ELSE PastLookback(name, prm, levels, purchased, history, fr, now)

STInit ==
    /\ strategy \in (IF engine = "strategy" THEN StrategyClasses ELSE {"RSI"})
    /\ params \in (IF engine = "strategy" THEN ParamSets(strategy)
                   ELSE {DefaultParams})
    /\ grid_levels = <<>>
    /\ last_purchase = 0
    /\ purchase_history = <<>>
    /\ data_len = 0
    /\ st_frame = QuietFrame
    /\ analyze_result = <<>>
    /\ st_clock = 0
    /\ st_now = RunStart
    /\ signal_times = <<>>

Analyze ==
    /\ engine = "strategy"
    /\ st_clock < MaxAnalyzeCalls
    /\ \E n \in DataLens, fr \in Frames(strategy), dt \in Elapsed(strategy) :
        \E out \in {analyze(strategy, params, grid_levels, last_purchase,
                             purchase_history, n, fr, st_now + dt)} :
            /\ data_len' = n
            /\ st_frame' = fr
            /\ st_now' = st_now + dt
            /\ analyze_result' = out.result
            /\ grid_levels' = out.grid_levels
            /\ last_purchase' = out.last_purchase
            /\ signal_times' = IF out.result # <<>>
                               THEN Append(signal_times, st_now + dt)
                               ELSE signal_times
    /\ st_clock' = st_clock + 1
    /\ UNCHANGED <<strategy, params, purchase_history>>
    /\ UNCHANGED <<aggVars, engine, extVars, btVars, pmVars, lots, rmVars>>

(***************************************************************************)
(* StrategyManager.analyze_market: the strategies run as concurrent tasks  *)
(***************************************************************************)
\* most strategies enabled in one StrategyManager
MaxTasks == 3

\* keys of strategy_classes that config['enabled'] lists here
EnabledNames == {"rsi", "macd", "grid"}

\* self.strategies: a dict, iterated in the order of config['enabled']
EnabledLists ==
    {l \in SeqsUpTo(EnabledNames, MaxTasks) :
        l # <<>> /\ \A i, j \in 1..Len(l) : i # j => l[i] # l[j]}

\* what one strategy.analyze(...) task ends with: an exception, or a list
TaskOutcomes(name) ==
    {[raised |-> TRUE, value |-> <<>>], [raised |-> FALSE, value |-> <<>>]}
    \cup {[raised |-> FALSE,
           value |-> <<[strategy |-> name, symbol |-> sym, side |-> sd,
                        confidence |-> cf]>>] :
            sym \in Symbols, sd \in Sides, cf \in Confidences}

Pending == [pending |-> TRUE]

\* the mappings analyze_market is handed, by their keys: keyed by strategy
\* names as run_backtest builds them, or by trading symbols as
\* MarketDataManager.get_latest_data builds them
MarketKeySets ==
    (SUBSET EnabledNames) \cup {{"BTCUSDT"}, {"BTCUSDT", "ETHUSDT"}}

InvokedAlways(name, keys) == TRUE

\* if strategy_name in market_data
Invoked(name, keys) == name \in keys

\* strategy.analyze(market_data[strategy_name]): the strategy called and the
\* key of the entry it is passed
TaskFor(name) == [strategy |-> name, data |-> name]

RECURSIVE BuildTasks(_, _, _)
\* the loop over self.strategies.items(), from position k on
BuildTasks(enabled, keys, k) ==
    IF k > Len(enabled) THEN <<>>
    ELSE (IF Invoked(enabled[k], keys) THEN <<TaskFor(enabled[k])>> ELSE <<>>)
         \o BuildTasks(enabled, keys, k + 1)

CompletionSlot(i, k) == k

\* asyncio.gather: the result of the i-th awaitable, the k-th to complete,
\* goes to position i of the returned list
GatherSlot(i, k) == i

\* gather without return_exceptions: the first exception ends the call
RECURSIVE FirstFailureWins(_, _)
FirstFailureWins(results, k) ==
    IF \E i \in 1..Len(results) : results[i].raised THEN <<>>
    ELSE IF k > Len(results) THEN <<>>
    ELSE results[k].value \o FirstFailureWins(results, k + 1)

RECURSIVE CollectSignals(_, _)
\* the `for i, result in enumerate(results)` loop, from position k on
CollectSignals(results, k) ==
    IF k > Len(results) THEN <<>>
    ELSE (IF results[k].raised THEN <<>> ELSE results[k].value)
         \o CollectSignals(results, k + 1)

MgrInit ==
    /\ mgr_enabled \in (IF engine \in {"manager", "live"} THEN EnabledLists ELSE {<<>>})
    /\ mgr_keys = {}
    /\ mgr_tasks = <<>>
    /\ mgr_outcomes = <<>>
    /\ mgr_results = <<>>
    /\ mgr_order = <<>>
    /\ mgr_pc = "idle"
    /\ mgr_out = <<>>

\* analyze_market up to the await: one task per strategy
AnalyzeMarket ==
    /\ engine = "manager"
    /\ mgr_pc = "idle"
    /\ \E keys \in MarketKeySets :
        \E tasks \in {BuildTasks(mgr_enabled, keys, 1)} :
            /\ mgr_keys' = keys
            /\ mgr_tasks' = tasks
            /\ mgr_outcomes' \in
                    {o \in [1..Len(tasks) ->
                                UNION {TaskOutcomes(n) : n \in EnabledNames}] :
                        \A i \in 1..Len(tasks) :
                            o[i] \in TaskOutcomes(tasks[i].strategy)}
            /\ mgr_results' = [i \in 1..Len(tasks) |-> Pending]
    /\ mgr_order' = <<>>
    /\ mgr_pc' = "gather"
    /\ UNCHANGED <<mgr_enabled, mgr_out>>
    /\ UNCHANGED <<coreVars, auxVars, mdVars, botVars>>

\* the event loop runs one of the pending tasks to its end
CompleteTask ==
    /\ engine = "manager"
    /\ mgr_pc = "gather"
    /\ \E i \in 1..Len(mgr_tasks) :
        /\ \A k \in 1..Len(mgr_order) : mgr_order[k] # i
        /\ mgr_results' =
               [mgr_results EXCEPT ![GatherSlot(i, Len(mgr_order) + 1)] =
                                        mgr_outcomes[i]]
        /\ mgr_order' = Append(mgr_order, i)
    /\ UNCHANGED <<mgr_enabled, mgr_keys, mgr_tasks, mgr_outcomes, mgr_pc, mgr_out>>
    /\ UNCHANGED <<coreVars, auxVars, mdVars, botVars>>

\* gather returns once every task is done; the rest of analyze_market
CollectResults ==
    /\ engine = "manager"
    /\ mgr_pc = "gather"
    /\ Len(mgr_order) = Len(mgr_tasks)
    /\ mgr_out' = filter_and_prioritize_signals(CollectSignals(mgr_results, 1))
    /\ mgr_pc' = "done"
    /\ UNCHANGED <<mgr_enabled, mgr_keys, mgr_tasks, mgr_outcomes, mgr_results,
                   mgr_order>>
    /\ UNCHANGED <<coreVars, auxVars, mdVars, botVars>>

(***************************************************************************)
(* MarketDataManager                                                       *)
(***************************************************************************)
\* how many of self.symbols are modelled, in list order
MaxSymbols == 3
\* the wall clock stops at this many half-minutes
MaxTicks == 3

\* self.symbols
AllSymbols == <<"BTCUSDT", "ETHUSDT", "ADAUSDT", "DOTUSDT", "LINKUSDT">>
MDSymbols == SubSeq(AllSymbols, 1, IF MaxSymbols < 5 THEN MaxSymbols ELSE 5)
MDSymbolSet == {MDSymbols[k] : k \in 1..Len(MDSymbols)}

\* timedelta(minutes=1), in half-minutes
FreshnessWindow == 2

\* how generating or fetching the frame of one symbol can end
FetchOutcomes == {"data", "none", "raised"}

NoFrames == [s \in {} |-> 0]

FreshOrJustExpired(now, updated) == now - updated <= FreshnessWindow

\* datetime.now() - last_update < timedelta(minutes=1)
Fresh(now, updated) == now - updated < FreshnessWindow

\* the cache test at the top of _fetch_symbol_data
CacheHit(cache, updates, symbol, now) ==
    /\ symbol \in DOMAIN cache
    /\ Fresh(now, updates[symbol])

\* _fetch_symbol_data(symbol) at time now, the source answering `outcome`:
\* what it returns and leaves behind
fetch_symbol_data(cache, updates, symbol, now, outcome) ==
    IF CacheHit(cache, updates, symbol, now)
    THEN [how |-> "cached", data |-> cache[symbol],
          data_cache |-> cache, last_update |-> updates]
    ELSE IF outcome = "raised"
    THEN [how |-> "raised", data |-> [none |-> TRUE],
          data_cache |-> cache, last_update |-> updates]
    ELSE IF outcome = "none"
    THEN [how |-> "none", data |-> [none |-> TRUE],
          data_cache |-> cache, last_update |-> updates]
    ELSE LET data == [symbol |-> symbol, generated |-> now]
         IN  [how |-> "fetched", data |-> data,
              data_cache |-> Put(cache, symbol, data),
              last_update |-> Put(updates, symbol, now)]

StopOnFailure(k, how) ==
    IF how \in {"none", "raised"} THEN Len(MDSymbols) + 1 ELSE k + 1

\* the for loop of get_latest_data goes on to the next symbol, the except
\* clause being inside it
NextSymbol(k, how) == k + 1

MDInit ==
    /\ data_cache = NoFrames
    /\ last_update = NoFrames
    /\ md_now = 0
    /\ md_pc = "idle"
    /\ md_k = 1
    /\ market_data = NoFrames
    /\ md_fetch = [s \in MDSymbolSet |-> "untried"]

\* get_latest_data() up to its loop
GetLatestData ==
    /\ engine = "market"
    /\ md_pc = "idle"
    /\ md_pc' = "loop"
    /\ md_k' = 1
    /\ market_data' = NoFrames
    /\ md_fetch' = [s \in MDSymbolSet |-> "untried"]
    /\ UNCHANGED <<data_cache, last_update, md_now>>
    /\ UNCHANGED <<coreVars, auxVars, mgrVars, botVars>>

\* one turn of the loop: try / await _fetch_symbol_data / except
FetchSymbolData ==
    /\ engine = "market"
    /\ md_pc = "loop"
    /\ md_k <= Len(MDSymbols)
    /\ \E outcome \in FetchOutcomes :
        \E r \in {fetch_symbol_data(data_cache, last_update, MDSymbols[md_k],
                                    md_now, outcome)} :
            /\ data_cache' = r.data_cache
            /\ last_update' = r.last_update
            /\ market_data' = IF r.how \in {"cached", "fetched"}
                              THEN Put(market_data, MDSymbols[md_k], r.data)
                              ELSE market_data
            /\ md_fetch' = [md_fetch EXCEPT ![MDSymbols[md_k]] = r.how]
            /\ md_k' = NextSymbol(md_k, r.how)
    /\ UNCHANGED <<md_now, md_pc>>
    /\ UNCHANGED <<coreVars, auxVars, mgrVars, botVars>>

\* return market_data
ReturnLatestData ==
    /\ engine = "market"
    /\ md_pc = "loop"
    /\ md_k > Len(MDSymbols)
    /\ md_pc' = "idle"
    /\ UNCHANGED <<data_cache, last_update, md_now, md_k, market_data, md_fetch>>
    /\ UNCHANGED <<coreVars, auxVars, mgrVars, botVars>>

\* half a minute passes between two calls
Tick ==
    /\ engine = "market"
    /\ md_pc = "idle"
    /\ md_now < MaxTicks
    /\ md_now' = md_now + 1
    /\ UNCHANGED <<data_cache, last_update, md_pc, md_k, market_data, md_fetch>>
    /\ UNCHANGED <<coreVars, auxVars, mgrVars, botVars>>

(***************************************************************************)
(* FortuneBot: the main loop                                               *)
(***************************************************************************)
\* the counts of cycles kept by the model stop growing here
MaxCycles == 5

Saturating(n) == IF n < MaxCycles THEN n + 1 ELSE n

EndsLoop == "stopped"

\* `except Exception`: log, then await asyncio.sleep(5) inside the loop
OnException == "sleep5"

BotInit ==
    /\ running = FALSE
    /\ bot_pc = "init"
    /\ bot_cycles = 0
    /\ bot_errors = 0
    /\ bot_last = "none"

\* start() up to the loop
BotStart ==
    /\ engine = "bot"
    /\ bot_pc = "init"
    /\ running' = TRUE
    /\ bot_pc' = "check"
    /\ UNCHANGED <<bot_cycles, bot_errors, bot_last>>
    /\ UNCHANGED <<coreVars, auxVars, mgrVars, mdVars>>

\* `while self.running:` and the call of trading_cycle()
CheckRunning ==
    /\ engine = "bot"
    /\ bot_pc = "check"
    /\ IF running
       THEN /\ bot_pc' = "cycle"
            /\ bot_cycles' = Saturating(bot_cycles)
       ELSE /\ bot_pc' = "stopped"
            /\ UNCHANGED bot_cycles
    /\ UNCHANGED <<running, bot_errors, bot_last>>
    /\ UNCHANGED <<coreVars, auxVars, mgrVars, mdVars>>

\* trading_cycle() returns; await asyncio.sleep(1)
CycleSucceeds ==
    /\ engine = "bot"
    /\ bot_pc = "cycle"
    /\ bot_pc' = "sleep1"
    /\ bot_last' = "ok"
    /\ UNCHANGED <<running, bot_cycles, bot_errors>>
    /\ UNCHANGED <<coreVars, auxVars, mgrVars, mdVars>>

\* trading_cycle() raises an Exception
CycleFails ==
    /\ engine = "bot"
    /\ bot_pc = "cycle"
    /\ bot_pc' = OnException
    /\ bot_last' = "failed"
    /\ bot_errors' = Saturating(bot_errors)
    /\ UNCHANGED <<running, bot_cycles>>
    /\ UNCHANGED <<coreVars, auxVars, mgrVars, mdVars>>

\* the sleep of either branch is over
WakeUp ==
    /\ engine = "bot"
    /\ bot_pc \in {"sleep1", "sleep5"}
    /\ bot_pc' = "check"
    /\ UNCHANGED <<running, bot_cycles, bot_errors, bot_last>>
    /\ UNCHANGED <<coreVars, auxVars, mgrVars, mdVars>>

\* stop(), called while the loop is suspended at an await
Stop ==
    /\ engine = "bot"
    /\ bot_pc \in {"cycle", "sleep1", "sleep5"}
    /\ running
    /\ running' = FALSE
    /\ UNCHANGED <<bot_pc, bot_cycles, bot_errors, bot_last>>
    /\ UNCHANGED <<coreVars, auxVars, mgrVars, mdVars>>

\* signal_handler: stop(), then sys.exit(0) raises SystemExit, which
\* `except Exception` does not catch
SignalHandler ==
    /\ engine = "bot"
    /\ bot_pc \in {"check", "cycle", "sleep1", "sleep5"}
    /\ running' = FALSE
    /\ bot_pc' = "stopped"
    /\ UNCHANGED <<bot_cycles, bot_errors, bot_last>>
    /\ UNCHANGED <<coreVars, auxVars, mgrVars, mdVars>>

(***************************************************************************)
(* BaseStrategy.calculate_indicators                                       *)
(***************************************************************************)
MaxRows == 51

\* the closes of the frame, by the shape of the series
Shapes == {"flat", "rising", "falling", "zigzag"}

CloseAt(shape, i) ==
    CASE shape = "flat"    -> 100
      [] shape = "rising"  -> 100 + i
      [] shape = "falling" -> 200 - i
      [] shape = "zigzag"  -> 100 + (i % 2)

VolumeAt(shape, i) == 1000 + i

IndicatorInputs == [rows : 0..MaxRows, shape : Shapes]

\* a cell of a column: NaN, an exact number, or SomeNumber where the cell
\* holds a number whose magnitude the model does not follow (a standard
\* deviation, an exponential mean past the first row)
NaN == <<0, 0>>
SomeNumber == <<0, -1>>

IsNaN(v) == v = NaN

Exact(v) == v # NaN /\ v # SomeNumber

\* float arithmetic on cells: NaN propagates
CellSub(a, b) ==
    IF IsNaN(a) \/ IsNaN(b) THEN NaN
    ELSE IF Exact(a) /\ Exact(b) THEN RSub(a, b)
    ELSE SomeNumber

CellAdd(a, b) ==
    IF IsNaN(a) \/ IsNaN(b) THEN NaN
    ELSE IF Exact(a) /\ Exact(b) THEN RAdd(a, b)
    ELSE SomeNumber

\* Series.diff(): NaN on the first row
diff(series, i) == IF i = 1 THEN NaN ELSE CellSub(series[i], series[i - 1])

\* delta.where(delta > 0, 0): a comparison with NaN is False, so the NaN of
\* the first row is replaced by 0 like every other non-positive change
WherePositive(d) == IF ~IsNaN(d) /\ RLt(Zero, d) THEN d ELSE Zero

\* -delta.where(delta < 0, 0)
WhereNegative(d) == IF ~IsNaN(d) /\ RLt(d, Zero) THEN RNeg(d) ELSE Zero

RECURSIVE SumOver(_, _, _)
SumOver(series, lo, hi) ==
    IF lo > hi THEN Zero
    ELSE IF lo = hi THEN series[lo]
    ELSE LET mid == (lo + hi) \div 2
         IN  RAdd(SumOver(series, lo, mid), SumOver(series, mid + 1, hi))

\* min_periods of Series.rolling(window=w): the window itself
RollingMinPeriods(window) == window

\* Series.rolling(window).mean() at row i (1-based)
rolling_mean(series, window, i) ==
    LET lo == IF i - window + 1 < 1 THEN 1 ELSE i - window + 1
    IN  IF i < RollingMinPeriods(window)
           \/ \E j \in lo..i : IsNaN(series[j])
        THEN NaN
        ELSE RDiv(SumOver(series, lo, i), <<i - lo + 1, 1>>)

\* Series.rolling(window).std() at row i
rolling_std(series, window, i) ==
    IF i < RollingMinPeriods(window) THEN NaN ELSE SomeNumber

\* Series.ewm(span=s).mean() at row i: min_periods defaults to 0, so the mean
\* is defined from the first observation on, where it is that observation
ewm_mean(series, span, i) ==
    IF \A j \in 1..i : IsNaN(series[j]) THEN NaN
    ELSE IF i = 1 THEN series[1]
    ELSE SomeNumber

\* 100 - (100 / (1 + gain / loss)): 0/0 is NaN, x/0 is inf
RsiOf(gain, loss) ==
    IF IsNaN(gain) \/ IsNaN(loss) THEN NaN
    ELSE IF loss = Zero
         THEN IF gain = Zero THEN NaN ELSE <<100, 1>>
         ELSE RSub(<<100, 1>>,
                   RDiv(<<100, 1>>, RAdd(One, RDiv(gain, loss))))

Columns == {"rsi", "macd", "macd_signal", "macd_histogram", "bb_middle",
            "bb_upper", "bb_lower", "sma_20", "sma_50", "ema_12", "ema_26",
            "volume_sma"}

calculate_indicators(data) ==
    LET rows   == 1..data.rows
        closes == [i \in rows |-> <<CloseAt(data.shape, i), 1>>]
        volumes== [i \in rows |-> <<VolumeAt(data.shape, i), 1>>]
        delta  == [i \in rows |-> diff(closes, i)]
        ups    == [i \in rows |-> WherePositive(delta[i])]
        downs  == [i \in rows |-> WhereNegative(delta[i])]
        gain   == [i \in rows |-> rolling_mean(ups, 14, i)]
        loss   == [i \in rows |-> rolling_mean(downs, 14, i)]
        exp1   == [i \in rows |-> ewm_mean(closes, 12, i)]
        exp2   == [i \in rows |-> ewm_mean(closes, 26, i)]
        macd   == [i \in rows |-> CellSub(exp1[i], exp2[i])]
        msig   == [i \in rows |-> ewm_mean(macd, 9, i)]
        middle == [i \in rows |-> rolling_mean(closes, 20, i)]
        bb_std == [i \in rows |-> rolling_std(closes, 20, i)]
    IN  [rsi            |-> [i \in rows |-> RsiOf(gain[i], loss[i])],
         macd           |-> macd,
         macd_signal    |-> msig,
         macd_histogram |-> [i \in rows |-> CellSub(macd[i], msig[i])],
         bb_middle      |-> middle,
         bb_upper       |-> [i \in rows |-> CellAdd(middle[i], bb_std[i])],
         bb_lower       |-> [i \in rows |-> CellSub(middle[i], bb_std[i])],
         sma_20         |-> middle,
         sma_50         |-> [i \in rows |-> rolling_mean(closes, 50, i)],
         ema_12         |-> exp1,
         ema_26         |-> exp2,
         volume_sma     |-> [i \in rows |-> rolling_mean(volumes, 20, i)]]

NoIndicators == [c \in Columns |-> <<>>]

IndInit ==
    /\ ind_data = [rows |-> 0, shape |-> "flat"]
    /\ ind_pc = "done"
    /\ indicators = NoIndicators

CalculateIndicators ==
    /\ engine = "indicators"
    /\ ind_pc = "input"
    /\ indicators' = calculate_indicators(ind_data)
    /\ ind_pc' = "done"
    /\ UNCHANGED <<ind_data, bt_strategy, liveVars>>
    /\ UNCHANGED <<coreVars, mgrVars, mdVars, botVars>>

(***************************************************************************)
(* FortuneBot: trading_cycle and execute_trade                             *)
(***************************************************************************)
MaxLiveCycles == 3

\* the keys of what get_latest_data returns, the symbols whose fetch gave
\* data: none, the first, or all of them
LiveKeySets == {{}, {MDSymbols[1]}, MDSymbolSet}

\* the index label of the last row of the frame task i of cycle c is given:
\* the time the frame was fetched
FrameLabel(c, i) == ToString(c) \o "/" \o ToString(i)

\* what task i of cycle c, an analyze() of strategy name, ends with
LiveOutcomes(name, c, i) ==
    {[raised |-> TRUE, value |-> <<>>], [raised |-> FALSE, value |-> <<>>]}
    \cup {[raised |-> FALSE,
           value |-> <<[strategy |-> name,
                        symbol |-> IF name \in LabelledStrategies
                                   THEN FrameLabel(c, i) ELSE "UNKNOWN",
                        side |-> sd, confidence |-> 80]>>] :
            sd \in Sides}

\* the signals execute_trade is handed: price is NoPrice where the signal has
\* no 'price' key
TradeSignals == [strategy : {"rsi", "grid"}, symbol : Symbols, side : Sides,
                 confidence : {80}, price : Prices]

\* the statistics of the RiskManager
RiskStats(pnl, n, history) ==
    [daily_pnl |-> pnl, daily_trades |-> n, trade_history |-> history]

\* update_daily_pnl(profit) and record_trade(result) after an executed order
ReportsProfit(risk, signal, result) ==
    IF result.success
    THEN RiskStats(RAdd(risk.daily_pnl, result.profit), risk.daily_trades + 1,
                   Append(risk.trade_history,
                          [strategy |-> signal.strategy, profit |-> result.profit]))
    ELSE risk

\* what execute_trade tells the RiskManager about the order: nothing (the
\* result goes to self.memory.record_trade alone)
ReportTrade(risk, signal, result) == risk

\* execute_trade(signal); st = [pf, file, risk, clock], pf as in place_order
execute_trade(st, signal) ==
    LET position_size == calculate_position_size(position_sizing_method,
                             st.risk.trade_history, default_risk_per_trade,
                             signal, st.pf.balance)
        call == [symbol |-> signal.symbol, side |-> signal.side,
                 amount |-> position_size,
                 price |-> IF "price" \in DOMAIN signal THEN signal.price
                           ELSE NoPrice]
        new == place_order(st.pf, call, st.clock + 1)
    IN  [pf |-> new,
         file |-> FileAfter(st.file, new, st.clock + 1),
         risk |-> ReportTrade(st.risk, signal, new.result),
         clock |-> st.clock + 1]

RECURSIVE ExecuteAll(_, _, _)
\* `for signal in filtered_signals: await self.execute_trade(signal)`
ExecuteAll(st, sigs, k) ==
    IF k > Len(sigs) THEN st
    ELSE ExecuteAll(execute_trade(st, sigs[k]), sigs, k + 1)

\* the objects of the bot as one record
BotState ==
    [pf |-> [balance |-> balance, positions |-> pm_positions,
             trade_history |-> trade_history, result |-> pm_result],
     file |-> portfolio_file,
     risk |-> RiskStats(daily_pnl, daily_trades, risk_trade_history),
     clock |-> pm_clock]

BecomesState(st) ==
    /\ balance' = st.pf.balance
    /\ pm_positions' = st.pf.positions
    /\ trade_history' = st.pf.trade_history
    /\ pm_result' = st.pf.result
    /\ portfolio_file' = st.file
    /\ pm_clock' = st.clock
    /\ daily_pnl' = st.risk.daily_pnl
    /\ daily_trades' = st.risk.daily_trades
    /\ risk_trade_history' = st.risk.trade_history

LiveInit ==
    /\ live_cycles = 0
    /\ live_keys = {}
    /\ live_signals = <<>>
    /\ live_filtered = <<>>

\* one trading_cycle(): fetch, analyse, filter, execute
TradingCycle ==
    /\ engine = "live"
    /\ live_cycles < MaxLiveCycles
    /\ \E keys \in LiveKeySets :
        \E tasks \in {BuildTasks(mgr_enabled, keys, 1)} :
        \E outcomes \in
            {o \in [1..Len(tasks) ->
                        UNION {LiveOutcomes(n, live_cycles + 1, i) :
                                   n \in EnabledNames, i \in 1..MaxTasks}] :
                \A i \in 1..Len(tasks) :
                    o[i] \in LiveOutcomes(tasks[i].strategy, live_cycles + 1, i)} :
        \E sigs \in {filter_and_prioritize_signals(CollectSignals(outcomes, 1))} :
        \E filtered \in {filter_signals(daily_pnl, max_daily_loss, sigs,
                                        pm_positions)} :
            /\ live_keys' = keys
            /\ live_signals' = sigs
            /\ live_filtered' = filtered
            /\ BecomesState(ExecuteAll(BotState, filtered, 1))
    /\ live_cycles' = live_cycles + 1
    /\ UNCHANGED <<mode, pm_call, pm_restarts, lots, max_daily_loss,
                   position_sizing_method, default_risk_per_trade, rm_call,
                   rm_result>>
    /\ UNCHANGED <<aggVars, engine, btVars, stVars, mgrVars, mdVars, botVars,
                   indVars, bt_strategy>>

\* execute_trade(signal) on its own
ExecuteTrade ==
    /\ engine = "trade"
    /\ pm_clock < MaxOrders
    /\ \E signal \in TradeSignals :
        /\ live_filtered' = <<signal>>
        /\ BecomesState(execute_trade(BotState, signal))
    /\ UNCHANGED <<live_cycles, live_keys, live_signals>>
    /\ UNCHANGED <<mode, pm_call, pm_restarts, lots, max_daily_loss,
                   position_sizing_method, default_risk_per_trade, rm_call,
                   rm_result>>
    /\ UNCHANGED <<aggVars, engine, btVars, stVars, mgrVars, mdVars, botVars,
                   indVars, bt_strategy>>

\* the other components, left as constructed
ExtInit ==
    /\ MgrInit
    /\ MDInit
    /\ BotInit
    /\ IndInit
    /\ bt_strategy = "any"
    /\ LiveInit

(***************************************************************************)
(* Specifications                                                          *)
(***************************************************************************)
\* the aggregator called on its own; the ledgers stay as constructed
AggSpecInit ==
    /\ AggInit
    /\ engine = "none"
    /\ BTInit
    /\ PMInit
    /\ lots = NoLots
    /\ RMInit
    /\ STInit
    /\ ExtInit

SpecAgg == AggSpecInit /\ [][FilterAndPrioritize]_vars

\* one ledger object per behaviour: a BacktestEngine or a PortfolioManager
Init ==
    /\ signals_in = <<>>
    /\ best_signals = <<>>
    /\ agg_pc = "done"
    /\ engine \in {"backtest", "portfolio"}
    /\ BTInit
    /\ PMInit
    /\ lots = NoLots
    /\ RMInit
    /\ STInit
    /\ ExtInit

Next ==
    \/ RunBacktest
    \/ SkipBar
    \/ AnalyzeBar
    \/ ExecuteBacktestTrade
    \/ RecordEquity
    \/ FinishBacktest
    \/ PlaceOrder
    \/ Initialize

Spec == Init /\ [][Next]_vars

\* the metrics on their own: the end of run_backtest's loop with the trade list
\* and the equity curve drawn from bounded sets (the metrics read nothing else
\* of the ledger but initial_capital)
MetricsInit ==
    /\ signals_in = <<>>
    /\ best_signals = <<>>
    /\ agg_pc = "done"
    /\ engine = "backtest"
    /\ \E input \in MetricsInputs :
        /\ trades = input[1]
        /\ equity_curve = input[2]
        /\ n_bars = MinLookback - 1 + Len(input[2])
    /\ bar = n_bars
    /\ initial_capital = <<10000, 1>>
    /\ capital = IF equity_curve = <<>> THEN initial_capital
                 ELSE equity_curve[Len(equity_curve)].capital
    /\ positions = NoPositions
    /\ bt_pc = "loop"
    /\ close = Zero
    /\ signals = <<>>
    /\ sig_k = 1
    /\ n_fills = 0
    /\ bt_result = [none |-> TRUE]
    /\ bt_runs = 1
    /\ PMInit
    /\ lots = NoLots
    /\ RMInit
    /\ STInit
    /\ ExtInit

SpecMetrics == MetricsInit /\ [][FinishBacktest]_vars

\* a RiskManager called on its own
RiskInit ==
    /\ signals_in = <<>>
    /\ best_signals = <<>>
    /\ agg_pc = "done"
    /\ engine \in {"risk_filter", "risk_sizing"}
    /\ BTInit
    /\ PMInit
    /\ lots = NoLots
    /\ RMInit
    /\ STInit
    /\ ExtInit

RiskNext ==
    \/ UpdateDailyPnl
    \/ ResetDailyStats
    \/ FilterSignals
    \/ RecordTrade
    \/ CalculatePositionSize

SpecRisk == RiskInit /\ [][RiskNext]_vars

\* one strategy object called on frames of any length
StrategyInit ==
    /\ signals_in = <<>>
    /\ best_signals = <<>>
    /\ agg_pc = "done"
    /\ engine = "strategy"
    /\ BTInit
    /\ PMInit
    /\ lots = NoLots
    /\ RMInit
    /\ STInit
    /\ ExtInit

SpecStrategy == StrategyInit /\ [][Analyze]_vars

\* one BacktestEngine object used for several runs
ReuseInit ==
    /\ signals_in = <<>>
    /\ best_signals = <<>>
    /\ agg_pc = "done"
    /\ engine = "backtest"
    /\ BTInit
    /\ PMInit
    /\ lots = NoLots
    /\ RMInit
    /\ STInit
    /\ ExtInit

ReuseNext ==
    \/ RunBacktest
    \/ SkipBar
    \/ AnalyzeBar
    \/ ExecuteBacktestTrade
    \/ RecordEquity
    \/ FinishBacktest
    \/ RunAgain

SpecReuse == ReuseInit /\ [][ReuseNext]_vars

\* the objects not exercised by a behaviour, as constructed
IdleCore ==
    /\ signals_in = <<>>
    /\ best_signals = <<>>
    /\ agg_pc = "done"
    /\ BTInit
    /\ PMInit
    /\ lots = NoLots
    /\ RMInit
    /\ STInit

\* one analyze_market call of a StrategyManager, the tasks completing in any
\* order
ManagerInit ==
    /\ engine = "manager"
    /\ IdleCore
    /\ ExtInit

ManagerNext ==
    \/ AnalyzeMarket
    \/ CompleteTask
    \/ CollectResults

SpecManager == ManagerInit /\ [][ManagerNext]_vars

\* a MarketDataManager called cycle after cycle while time passes
MarketInit ==
    /\ engine = "market"
    /\ IdleCore
    /\ ExtInit

MarketNext ==
    \/ GetLatestData
    \/ FetchSymbolData
    \/ ReturnLatestData
    \/ Tick

SpecMarket == MarketInit /\ [][MarketNext]_vars

\* FortuneBot.start() with stop() or a signal arriving at any await
BotSpecInit ==
    /\ engine = "bot"
    /\ IdleCore
    /\ ExtInit

BotNext ==
    \/ BotStart
    \/ CheckRunning
    \/ CycleSucceeds
    \/ CycleFails
    \/ WakeUp
    \/ Stop
    \/ SignalHandler

\* the event loop resumes a coroutine whose sleep is over and runs it to its
\* next await; how a cycle ends and whether stop() is called is not forced
SpecBot ==
    /\ BotSpecInit
    /\ [][BotNext]_vars
    /\ WF_vars(WakeUp)
    /\ WF_vars(CheckRunning)

\* run_backtest with a strategy that names its signals after the bar
LabelledInit ==
    /\ engine = "backtest"
    /\ IdleCore
    /\ MgrInit
    /\ MDInit
    /\ BotInit
    /\ IndInit
    /\ bt_strategy \in LabelledStrategies
    /\ LiveInit

LabelledNext ==
    \/ RunBacktest
    \/ SkipBar
    \/ AnalyzeBar
    \/ ExecuteBacktestTrade
    \/ RecordEquity
    \/ FinishBacktest

SpecLabelled == LabelledInit /\ [][LabelledNext]_vars

\* the live loop's trading_cycle called again and again on a bot just built:
\* paper mode, an empty portfolio, the default risk settings
LiveSpecInit ==
    /\ engine = "live"
    /\ IdleCore
    /\ ExtInit

SpecLive == LiveSpecInit /\ [][TradingCycle]_vars

\* execute_trade called with any signal, under the default sizing method and
\* the fixed one
TradeInit ==
    /\ engine = "trade"
    /\ IdleCore
    /\ ExtInit

SpecTrade == TradeInit /\ [][ExecuteTrade]_vars

\* calculate_indicators called on a frame of any length up to MaxRows
IndicatorsInit ==
    /\ engine = "indicators"
    /\ IdleCore
    /\ MgrInit
    /\ MDInit
    /\ BotInit
    /\ ind_data \in IndicatorInputs
    /\ ind_pc = "input"
    /\ indicators = NoIndicators
    /\ bt_strategy = "any"
    /\ LiveInit

SpecIndicators == IndicatorsInit /\ [][CalculateIndicators]_vars

(***************************************************************************)
(* Properties                                                              *)
(***************************************************************************)
\* the open positions of the ledger the behaviour exercises
HeldPositions == IF engine = "backtest" THEN positions ELSE pm_positions

IndicesOf(sigs, sym) == {j \in 1..Len(sigs) : sigs[j].symbol = sym}

Conflicting(sigs, sym) ==
    \E i, j \in IndicesOf(sigs, sym) : sigs[i].side = "buy" /\ sigs[j].side = "sell"

Without(sigs, sym) == SelectSeq(sigs, LAMBDA x : x.symbol # sym)

\* C1: when the list given to _filter_and_prioritize_signals holds a buy and a
\* sell for one symbol, the returned list holds no signal for that symbol, and
\* what it holds for the other symbols is what the aggregator returns for the
\* input without that symbol's signals.
C1_ConflictingSymbolDropped ==
    agg_pc = "done" =>
        \A sym \in Symbols :
            Conflicting(signals_in, sym) =>
                /\ IndicesOf(best_signals, sym) = {}
                /\ best_signals = filter_and_prioritize_signals(Without(signals_in, sym))

C1_Witness ==
    /\ agg_pc = "done"
    /\ Conflicting(signals_in, "UNKNOWN")
    /\ IndicesOf(signals_in, "BTCUSDT") # {}
    /\ best_signals # <<>>

\* C2: the aggregator returns at most one signal per symbol; for a symbol whose
\* signals all share one side it returns the one of highest confidence, and
\* among those of equal highest confidence the first of the input list.
C2_BestSignalPerSymbol ==
    agg_pc = "done" =>
        \A sym \in Symbols :
            LET idx == IndicesOf(signals_in, sym)
                top == {i \in idx : \A j \in idx :
                            signals_in[j].confidence <= signals_in[i].confidence}
                first == CHOOSE i \in top : \A j \in top : i <= j
            IN  /\ Cardinality(IndicesOf(best_signals, sym)) <= 1
                /\ (idx # {} /\ Cardinality({signals_in[i].side : i \in idx}) = 1) =>
                        \E k \in IndicesOf(best_signals, sym) :
                            best_signals[k] = signals_in[first]

C2_Witness ==
    /\ agg_pc = "done"
    /\ Len(signals_in) = 3
    /\ \A i \in 1..3 : signals_in[i].symbol = "UNKNOWN" /\ signals_in[i].side = "buy"
    /\ signals_in[1].confidence = 60
    /\ signals_in[2].confidence = 80 /\ signals_in[3].confidence = 80
    /\ signals_in[2].strategy # signals_in[3].strategy
    /\ best_signals = <<signals_in[2]>>

\* a step of ExecuteBacktestTrade that handles a sell signal for a held symbol
BacktestSellStep ==
    /\ engine = "backtest" /\ bt_pc = "exec" /\ sig_k' = sig_k + 1
    /\ signals[sig_k].side = "sell"
    /\ signals[sig_k].symbol \in DOMAIN positions

\* a step of ExecuteBacktestTrade that handles a buy signal
BacktestBuyStep ==
    /\ engine = "backtest" /\ bt_pc = "exec" /\ sig_k' = sig_k + 1
    /\ signals[sig_k].side = "buy"

\* a place_order call in paper mode
PaperOrderStep(sd) ==
    /\ engine = "portfolio" /\ mode = "paper" /\ pm_clock' = pm_clock + 1
    /\ pm_call'.side = sd

\* the quantity a sell step asks to sell
BacktestRequested == PositionSize(capital, close)
PaperRequested == RDiv(pm_call'.amount, CurrentPrice(pm_call'.symbol, pm_call'.price))

LastOf(q) == q[Len(q)]

\* S was bought once (a positive quantity) and not sold since
BoughtOnce(sym) ==
    /\ sym \in DOMAIN HeldPositions
    /\ Len(lots[sym].buys) = 1
    /\ ~lots[sym].sold
    /\ RLt(Zero, HeldPositions[sym].quantity)

C4_WeightedAverageCost ==
    \A sym \in DOMAIN HeldPositions :
        (Len(lots[sym].buys) = 2 /\ ~lots[sym].sold) =>
            LET q1 == lots[sym].buys[1][1]
                p1 == lots[sym].buys[1][2]
                q2 == lots[sym].buys[2][1]
                p2 == lots[sym].buys[2][2]
            IN  /\ HeldPositions[sym].quantity = RAdd(q1, q2)
                /\ RMul(HeldPositions[sym].avg_price, RAdd(q1, q2))
                        = RAdd(RMul(q1, p1), RMul(q2, p2))

\* two backtest buys of one symbol, of different quantities at different closes
C4_Witness ==
    /\ engine = "backtest"
    /\ \E sym \in DOMAIN positions :
        /\ Len(lots[sym].buys) = 2 /\ ~lots[sym].sold
        /\ lots[sym].buys[1][2] # lots[sym].buys[2][2]
        /\ lots[sym].buys[1][1] # lots[sym].buys[2][1]

\* the same in the portfolio
C4_PortfolioCase ==
    /\ engine = "portfolio"
    /\ \E sym \in DOMAIN pm_positions :
        /\ Len(lots[sym].buys) = 2 /\ ~lots[sym].sold
        /\ lots[sym].buys[1][2] # lots[sym].buys[2][2]

\* what an executed sell of sym does to a ledger: pos and cash before, pos2 and
\* cash2 after, t the appended Trade, requested the quantity asked for
SellEffect(pos, cash, pos2, cash2, t, sym, requested, price) ==
    LET held == pos[sym].quantity
    IN  /\ t.quantity = (IF RLe(requested, held) THEN requested ELSE held)
        /\ RLe(t.quantity, held)
        /\ t.price = price
        /\ t.profit = RMul(RSub(price, pos[sym].avg_price), t.quantity)
        /\ cash2 = RAdd(cash, RMul(t.quantity, price))
        /\ sym \in DOMAIN pos2 =>
                /\ RAdd(pos2[sym].quantity, t.quantity) = held
                /\ pos2[sym].avg_price = pos[sym].avg_price
        /\ sym \notin DOMAIN pos2 => RLe(RSub(held, t.quantity), DustThreshold)
        /\ \A other \in Symbols \ {sym} :
                /\ other \in DOMAIN pos <=> other \in DOMAIN pos2
                /\ other \in DOMAIN pos => pos2[other] = pos[other]

C5_BacktestCase ==
    /\ engine = "backtest"
    /\ trades # <<>>
    /\ LastOf(trades).symbol \in DOMAIN positions

\* an executed order of the step, by ledger: the symbol and the quantity left
\* after a sell
BacktestLeft ==
    RSub(positions[signals[sig_k].symbol].quantity,
         SellQuantity(BacktestRequested, positions[signals[sig_k].symbol].quantity))
PaperLeft ==
    RSub(pm_positions[pm_call'.symbol].quantity,
         SellQuantity(PaperRequested, pm_positions[pm_call'.symbol].quantity))

PaperLedger == <<balance, pm_positions, trade_history>>

\* C7: a rejected order changes nothing.  A paper buy whose cost exceeds the
\* balance and a paper sell of a symbol without a position return success=False
\* with an error and leave balance, positions and trade_history as they were, as
\* does every order that returns success=False; a backtest sell signal for a
\* symbol without a position leaves capital, positions and trades as they were.
C7_RejectedOrderChangesNothing ==
    [][ /\ ( /\ PaperOrderStep("buy")
             /\ RLt(balance, pm_call'.amount) )
            => /\ pm_result' = Rejected("Solde insuffisant")
               /\ UNCHANGED PaperLedger
        /\ ( /\ PaperOrderStep("sell")
             /\ pm_call'.symbol \notin DOMAIN pm_positions )
            => /\ pm_result' = Rejected("Aucune position a vendre")
               /\ UNCHANGED PaperLedger
        /\ (pm_clock' = pm_clock + 1 /\ ~pm_result'.success)
            => /\ "error" \in DOMAIN pm_result'
               /\ UNCHANGED PaperLedger
        /\ ( /\ engine = "backtest" /\ bt_pc = "exec" /\ sig_k' = sig_k + 1
             /\ signals[sig_k].side = "sell"
             /\ signals[sig_k].symbol \notin DOMAIN positions )
            => UNCHANGED <<capital, positions, trades>>
      ]_vars

\* a buy beyond the balance, rejected on a portfolio that already holds a trade
C7_Witness ==
    /\ engine = "portfolio" /\ mode = "paper" /\ pm_clock > 0
    /\ pm_call.side = "buy"
    /\ RLt(balance, pm_call.amount)
    /\ pm_result = Rejected("Solde insuffisant")
    /\ trade_history # <<>>
    /\ DOMAIN pm_positions # {}

\* a backtest sell signal that found no position, after an earlier fill
C7_BacktestCase ==
    /\ engine = "backtest" /\ bt_pc = "exec" /\ sig_k = 2
    /\ signals[1].side = "sell"
    /\ signals[1].symbol \notin DOMAIN positions
    /\ DOMAIN positions # {}
    /\ trades = <<>>

\* q2 is q with at most one record appended
AppendedTo(q, q2, n) == Len(q2) = Len(q) + n /\ SubSeq(q2, 1, Len(q)) = q

\* C8: an executed sell appends exactly one Trade; an executed buy appends none
\* in the backtest and exactly one, of profit 0, in the portfolio; no step
\* changes or removes a Trade already appended.
C8_TradesAppendOnly ==
    [][ /\ BacktestSellStep => AppendedTo(trades, trades', 1)
        /\ BacktestBuyStep => trades' = trades
        /\ (PaperOrderStep("sell") /\ pm_result'.success)
            => AppendedTo(trade_history, trade_history', 1)
        /\ (PaperOrderStep("buy") /\ pm_result'.success)
            => /\ AppendedTo(trade_history, trade_history', 1)
               /\ LastOf(trade_history').profit = Zero
               /\ LastOf(trade_history').side = "buy"
        /\ AppendedTo(trades, trades', 0) \/ AppendedTo(trades, trades', 1)
        /\ \/ AppendedTo(trade_history, trade_history', 0)
           \/ AppendedTo(trade_history, trade_history', 1)
      ]_vars

\* a backtest that filled a buy and then a sell: one Trade, for the sell
C8_Witness ==
    /\ engine = "backtest"
    /\ Len(trades) = 1
    /\ Len(lots[trades[1].symbol].buys) = 1
    /\ lots[trades[1].symbol].sold
    /\ trades[1].side = "sell"

\* a portfolio whose history holds a buy and then a sell
C8_PortfolioCase ==
    /\ engine = "portfolio"
    /\ Len(trade_history) = 2
    /\ trade_history[1].side = "buy" /\ trade_history[2].side = "sell"
    /\ RLt(Zero, trade_history[2].profit)

\* C9 as claimed: run_backtest appends one EquityPoint per bar of the window,
\* in bar order, also for the bars before the 50-bar lookback: after a run over
\* N bars on a fresh engine the equity curve has N points, point j for bar j.
C9_OneEquityPointPerBar ==
    /\ bt_pc = "done" => Len(equity_curve) = n_bars
    /\ \A j \in 1..Len(equity_curve) : equity_curve[j].timestamp = j - 1

\* what the code does: only the bars from the 50th on get a point
C9_PointsFromLookbackOn ==
    /\ bt_pc = "done" =>
        Len(equity_curve) = (IF n_bars < MinLookback THEN 0 ELSE n_bars - MinLookback + 1)
    /\ \A j \in 1..Len(equity_curve) : equity_curve[j].timestamp = j + MinLookback - 2

\* the value of the position of sym at the close of the current bar
ValueAtClose(sym) ==
    IF sym \in DOMAIN positions THEN RMul(positions[sym].quantity, close) ELSE Zero

\* C10: every EquityPoint holds equity = cash + the sum over the open positions
\* of quantity * close of its bar, and capital = the cash after the bar's fills.
\* (Stated of the newest point at the end of its iteration: cash, positions and
\* close stay as they are until the next bar is analysed.)
C10_EquityIsCashPlusPositions ==
    (bt_pc \in {"loop", "done"} /\ equity_curve # <<>>) =>
        /\ LastOf(equity_curve).equity =
                RAdd(capital, RAdd(ValueAtClose("UNKNOWN"), ValueAtClose("BTCUSDT")))
        /\ LastOf(equity_curve).capital = capital

\* an equity point recorded with two positions open, worth more than the cash
C10_Witness ==
    /\ bt_pc = "loop"
    /\ Len(equity_curve) = 2
    /\ DOMAIN positions = Symbols
    /\ RLt(capital, LastOf(equity_curve).equity)
    /\ LastOf(equity_curve).equity # initial_capital

\* C11: a finished backtest run in which no Trade was recorded has returned the
\* 'no trades executed' error record, which carries no metric field; a run over
\* an empty window has returned an error record too; a run with trades has
\* returned metrics and no error; and no run has raised.
C11_NoTradesIsAnErrorRecord ==
    (engine = "backtest" /\ bt_pc = "done") =>
        /\ "raised" \notin DOMAIN bt_result
        /\ n_bars = 0 => DOMAIN bt_result = {"error"}
        /\ (n_bars > 0 /\ trades = <<>>) =>
                bt_result = [error |-> "Aucun trade execute"]
        /\ trades # <<>> => {"error", "raised"} \cap DOMAIN bt_result = {}

\* a run that stepped bars and bought, which leaves a position and no Trade
C11_Witness ==
    /\ engine = "backtest" /\ bt_pc = "done"
    /\ trades = <<>>
    /\ n_fills > 0 /\ equity_curve # <<>> /\ DOMAIN positions # {}
    /\ "error" \in DOMAIN bt_result

\* a step of ExecuteBacktestTrade that changes the ledger
BacktestFillStep ==
    /\ engine = "backtest" /\ bt_pc = "exec" /\ sig_k' = sig_k + 1
    /\ <<capital, positions, trades>>' # <<capital, positions, trades>>

\* C16 as claimed: a signal that changes the backtest ledger has passed the risk
\* filter: its confidence is at least 0.5 and fewer than 5 positions are open
\* when it arrives.
C16_OnlyFilteredSignalsFill ==
    [][ BacktestFillStep =>
            /\ signals[sig_k].confidence >= 50
            /\ Cardinality(DOMAIN positions) < 5 ]_vars

\* C17: until the history prefix has 50 bars no strategy is invoked and nothing
\* is filled: up to the end of bar 49 no bar has been analysed and cash,
\* positions and the trade list are those of the start of the run.
C17_NothingBeforeLookback ==
    (engine = "backtest" /\ (bar < 49 \/ (bar = 49 /\ bt_pc # "exec"))) =>
        /\ n_fills = 0 /\ signals = <<>> /\ close = Zero
        /\ capital = initial_capital
        /\ positions = NoPositions
        /\ trades = <<>>
        /\ equity_curve = <<>>

\* the end of bar 49 of a run over a longer window
C17_Witness ==
    /\ engine = "backtest" /\ bt_pc = "loop"
    /\ bar = 49 /\ n_bars > 49
    /\ capital = initial_capital /\ trades = <<>>

\* the side of the signal that opens a position of the given side
OpeningSide(position_side) == IF position_side = "long" THEN "buy" ELSE "sell"

\* the four rejections as the claim lists them, for the manager's current P&L
ClaimedRejection(signal, held) ==
    \/ RLt(daily_pnl, RNeg(max_daily_loss))
    \/ Cardinality(DOMAIN held) >= 5
    \/ /\ signal.symbol \in DOMAIN held
       /\ OpeningSide(held[signal.symbol].side) # signal.side
    \/ signal.confidence < 50

\* C12 as claimed: filter_signals returns, in input order, exactly the signals
\* for which none of the four rejections holds; a buy signal on a symbol whose
\* position was opened by a buy is not on the opposite side and is accepted.
C12_RejectsExactlyTheFour ==
    rm_call.op = "filter_signals" =>
        rm_result = SelectSeq(rm_call.signals,
                        LAMBDA s : ~ClaimedRejection(s, rm_call.current_positions))

\* C13: for every sizing method, signal and balance >= 0,
\* calculate_position_size returns an amount between 0 and the balance.
C13_SizeWithinBalance ==
    rm_call.op = "calculate_position_size" =>
        /\ RLe(Zero, rm_result)
        /\ RLe(rm_result, rm_call.account_balance)

\* a Kelly size of a quarter of the balance, from a history of five trades
C13_Witness ==
    /\ rm_call.op = "calculate_position_size"
    /\ position_sizing_method = "kelly"
    /\ Len(risk_trade_history) = 5
    /\ rm_call.account_balance = <<10000, 1>>
    /\ rm_result = <<2500, 1>>

\* the recorded trades of the strategy of the signal being sized
OwnTrades ==
    SelectSeq(risk_trade_history, LAMBDA t : t.strategy = rm_call.signal.strategy)
OwnWins == SelectSeq(OwnTrades, LAMBDA t : RLt(Zero, t.profit))
OwnLosses == SelectSeq(OwnTrades, LAMBDA t : RLt(t.profit, Zero))

\* f = (b*p - q)/b of the claim for a history with losses; without a win p = 0
\* and f = -1/b is negative whatever b is
ClaimedKellyFraction ==
    IF OwnWins = <<>> THEN <<-1, 1>>
    ELSE LET b == RDiv(MeanProfit(OwnWins), RAbs(MeanProfit(OwnLosses)))
             p == R(Len(OwnWins), Len(OwnTrades))
         IN  RDiv(RSub(RMul(b, p), RSub(One, p)), b)

\* C14 as claimed: Kelly sizing returns balance * f clamped to [0, 0.25], f from
\* the signal's strategy's trades only: a quarter of the balance for win rate
\* 0.6, average win 100 and average loss 50, and 0 whenever f is negative.
C14_KellyClamped ==
    ( /\ rm_call.op = "calculate_position_size"
      /\ position_sizing_method = "kelly"
      /\ OwnLosses # <<>> ) =>
        /\ rm_result = RMul(rm_call.account_balance,
                            RMax(Zero, RMin(<<1, 4>>, ClaimedKellyFraction)))
        /\ RLt(ClaimedKellyFraction, Zero) => rm_result = Zero
        /\ ( /\ R(Len(OwnWins), Len(OwnTrades)) = <<3, 5>>
             /\ MeanProfit(OwnWins) = <<100, 1>>
             /\ MeanProfit(OwnLosses) = <<-50, 1>> ) =>
                rm_result = RMul(rm_call.account_balance, <<1, 4>>)

\* C15 as claimed: without a recorded trade of the signal's strategy, or with
\* an average loss of 0 (none of its trades lost), Kelly sizing returns what
\* percentage sizing returns: balance * default_risk_per_trade.
C15_KellyFallsBackToPercentage ==
    ( /\ rm_call.op = "calculate_position_size"
      /\ position_sizing_method = "kelly"
      /\ OwnLosses = <<>> ) =>
        rm_result = RMul(rm_call.account_balance, default_risk_per_trade)

RECURSIVE ProfitAt(_, _)
\* the sum of the profits of the trades at the indices J
ProfitAt(trs, J) ==
    IF J = {} THEN Zero
    ELSE LET j == CHOOSE x \in J : TRUE
         IN  RAdd(trs[j].profit, ProfitAt(trs, J \ {j}))

Winners(trs) == {j \in 1..Len(trs) : RLt(Zero, trs[j].profit)}
Losers(trs) == {j \in 1..Len(trs) : RLt(trs[j].profit, Zero)}

\* C18: for a non-empty trade list profit_factor is the sum of the positive
\* profits over the absolute sum of the negative ones, +infinity when no trade
\* has a negative profit, and 5 for the profits [+100, +50, -30].
C18_ProfitFactor ==
    (engine = "backtest" /\ bt_pc = "done" /\ trades # <<>>) =>
        /\ Losers(trades) = {} => bt_result.profit_factor = Infinity
        /\ Losers(trades) # {} =>
                /\ bt_result.profit_factor # Infinity
                /\ RMul(bt_result.profit_factor, RNeg(ProfitAt(trades, Losers(trades))))
                        = ProfitAt(trades, Winners(trades))
        /\ [j \in 1..Len(trades) |-> trades[j].profit]
                = <<<<100, 1>>, <<50, 1>>, <<-30, 1>>>>
                    => bt_result.profit_factor = <<5, 1>>

\* the report on the trades with profits [+100, +50, -30]
C18_Witness ==
    /\ engine = "backtest" /\ bt_pc = "done"
    /\ Len(trades) = 3
    /\ trades[1].profit = <<100, 1>> /\ trades[2].profit = <<50, 1>>
    /\ trades[3].profit = <<-30, 1>>
    /\ bt_result.profit_factor = <<5, 1>>

EquityOf(curve) == [j \in 1..Len(curve) |-> curve[j].equity]

\* the largest of the first i values
PeakUpTo(vals, i) ==
    CHOOSE v \in {vals[k] : k \in 1..i} : \A k \in 1..i : RLe(vals[k], v)

\* (running peak - value) / running peak at point i
DrawdownAt(vals, i) ==
    RDiv(RSub(PeakUpTo(vals, i), vals[i]), PeakUpTo(vals, i))

\* C19: max_drawdown is the largest, over the points of the equity curve, of
\* (running peak - value)/running peak; it is 0 for a non-decreasing curve and
\* 2000/11000 for the curve [10000, 11000, 9000, 9500].
C19_MaxDrawdown ==
    (engine = "backtest" /\ bt_pc = "done" /\ trades # <<>>) =>
        LET vals == EquityOf(equity_curve)
            dd == bt_result.max_drawdown
        IN  /\ \E i \in 1..Len(vals) : dd = DrawdownAt(vals, i)
            /\ \A i \in 1..Len(vals) : RLe(DrawdownAt(vals, i), dd)
            /\ (\A i \in 1..Len(vals) - 1 : RLe(vals[i], vals[i + 1])) => dd = Zero
            /\ vals = <<<<10000, 1>>, <<11000, 1>>, <<9000, 1>>, <<9500, 1>>>>
                    => dd = <<2, 11>>

\* the report on the curve [10000, 11000, 9000, 9500]
C19_Witness ==
    /\ engine = "backtest" /\ bt_pc = "done"
    /\ EquityOf(equity_curve) = <<<<10000, 1>>, <<11000, 1>>, <<9000, 1>>, <<9500, 1>>>>
    /\ bt_result.max_drawdown = <<2, 11>>

\* the minimum lookbacks as the claim lists them
ClaimedLookback(name, prm) ==
    CASE name = "RSI" -> prm.rsi_period + 1
      [] name = "MACD" -> prm.slow_period + prm.signal_period
      [] name = "Grid" -> 20
      [] name = "DCA" -> 50
      [] name = "Scalping" -> 10
      [] name = "TrendFollowing" -> prm.slow_ma + 10

\* C20: analyze() on a frame shorter than the strategy's minimum lookback
\* returns the empty list and leaves the strategy's parameters and internal
\* state as they were, also for frames of 0 or 1 bars.
C20_ShortFrameGivesNoSignal ==
    [][ (st_clock' = st_clock + 1 /\ data_len' < ClaimedLookback(strategy, params)) =>
            /\ analyze_result' = <<>>
            /\ <<params, grid_levels, last_purchase>>'
                    = <<params, grid_levels, last_purchase>> ]_vars

\* a Grid strategy whose grid is set up, then handed a frame of one bar
C20_Witness ==
    /\ strategy = "Grid" /\ st_clock = 2
    /\ grid_levels # <<>>
    /\ data_len = 1
    /\ analyze_result = <<>>

\* the levels of the grid priced below and above c
LevelsBelow(c) == {k \in 1..Len(grid_levels) : RLt(grid_levels[k].price, c)}
LevelsAbove(c) == {k \in 1..Len(grid_levels) : RLt(c, grid_levels[k].price)}

\* C21: a grid built around a center price c has exactly num_levels price
\* levels, as many below c as above it, spaced by grid_size * c, for every
\* num_levels >= 1.
C21_GridHasNumLevels ==
    (strategy = "Grid" /\ grid_levels # <<>>) =>
        \E c \in GridPrices :
            /\ Len(grid_levels) = params.num_levels
            /\ Cardinality(LevelsBelow(c)) = Cardinality(LevelsAbove(c))
            /\ \A k \in 1..(Len(grid_levels) - 1) :
                    RSub(grid_levels[k + 1].price, grid_levels[k].price)
                        = RMul(params.grid_size, c)

\* the latest call was handed the frame of the call before it
RepeatedFrame ==
    /\ st_clock > 0
    /\ st_clock' = st_clock + 1
    /\ data_len' = data_len
    /\ st_frame' = st_frame

\* C22 as stated: for every strategy, analyze() called twice in a row on the
\* same frame returns the same signal list both times.
C22_IdempotentForEveryStrategy ==
    [][RepeatedFrame => analyze_result' = analyze_result]_vars

\* C22: analyze() called twice in a row on the same frame returns the same
\* signal list both times for every strategy but DCA; a DCA strategy that
\* returned a signal returns none on a repeat less than interval_hours later.
C22_IdempotentButDCA ==
    [][RepeatedFrame =>
        /\ strategy # "DCA" => analyze_result' = analyze_result
        /\ (/\ strategy = "DCA"
            /\ analyze_result # <<>>
            /\ st_now' - st_now < params.interval_hours)
                => analyze_result' = <<>> ]_vars

\* a grid that signalled its centre level twice on the same frame
C22_Witness ==
    /\ strategy = "Grid" /\ st_clock = 2
    /\ Len(signal_times) = 2
    /\ Len(analyze_result) = 1

\* C23: between any two calls of analyze() on one DCA strategy that each
\* return a signal at least interval_hours have elapsed; calls that all fall
\* within less than interval_hours of wall-clock time return at most one
\* signal.
C23_OneSignalPerInterval ==
    strategy = "DCA" =>
        /\ \A i, j \in 1..Len(signal_times) :
                i < j => signal_times[j] - signal_times[i] >= params.interval_hours
        /\ st_now - RunStart < params.interval_hours => Len(signal_times) <= 1

\* two signals of one DCA strategy
C23_Witness ==
    /\ strategy = "DCA"
    /\ Len(signal_times) = 2

\* the drawdown of the claim: total invested minus current value, over total
\* invested, with one purchase of base_amount per signal
ClaimedDrawdown ==
    LET total_invested == RMul(<<Len(signal_times), 1>>, params.base_amount)
    IN  RDiv(RSub(total_invested, calculate_current_portfolio_value),
             total_invested)

\* C24: once purchases have been made and the drawdown is above
\* max_drawdown_stop, analyze() of a DCA strategy returns no signal.
C24_StopsAboveDrawdown ==
    [][ (/\ strategy = "DCA"
         /\ signal_times # <<>>
         /\ RLt(params.max_drawdown_stop, ClaimedDrawdown)
         /\ st_clock' = st_clock + 1)
            => analyze_result' = <<>> ]_vars

RECURSIVE MergeInEnabledOrder(_, _)
\* the signals of the tasks that returned a list, in the order of the
\* enabled strategies
MergeInEnabledOrder(outcomes, k) ==
    IF k > Len(outcomes) THEN <<>>
    ELSE (IF outcomes[k].raised THEN <<>> ELSE outcomes[k].value)
         \o MergeInEnabledOrder(outcomes, k + 1)

\* C25: analyze_market merges the strategies' signals in the order in which
\* the strategies were enabled, whatever the order in which the tasks
\* completed: the output, and the winner of a confidence tie, depend on the
\* tasks' results alone.
C25_MergeInEnabledOrder ==
    mgr_pc = "done" =>
        mgr_out = filter_and_prioritize_signals(
                      MergeInEnabledOrder(mgr_outcomes, 1))

\* two strategies tie on one symbol and the second one completed first
C25_Witness ==
    /\ mgr_pc = "done"
    /\ Len(mgr_tasks) >= 2
    /\ mgr_order[1] = 2
    /\ ~mgr_outcomes[1].raised /\ ~mgr_outcomes[2].raised
    /\ mgr_outcomes[1].value # <<>> /\ mgr_outcomes[2].value # <<>>
    /\ mgr_outcomes[1].value[1].symbol = mgr_outcomes[2].value[1].symbol
    /\ mgr_outcomes[1].value[1].side = mgr_outcomes[2].value[1].side
    /\ mgr_outcomes[1].value[1].confidence = mgr_outcomes[2].value[1].confidence
    /\ mgr_out = <<mgr_outcomes[1].value[1]>>

\* timedelta(minutes=1) of the claim, in half-minutes
ClaimedWindow == 2

\* the symbol whose turn of the loop the step takes
TurnOf(s) == md_pc = "loop" /\ md_k <= Len(MDSymbols) /\ MDSymbols[md_k] = s /\ md_k' # md_k

\* C26: _fetch_symbol_data returns the cached frame without generating or
\* fetching when the symbol was stored less than 1 minute ago, fetches again
\* once the minute has elapsed, and a fetch that yields None updates neither
\* the cache nor the symbol's last-update time.
C26_CacheWindow ==
    [][\A s \in MDSymbolSet : TurnOf(s) =>
        /\ (s \in DOMAIN data_cache /\ md_now - last_update[s] < ClaimedWindow)
            => /\ md_fetch'[s] = "cached"
               /\ market_data'[s] = data_cache[s]
               /\ <<data_cache, last_update>>' = <<data_cache, last_update>>
        /\ (s \in DOMAIN data_cache /\ md_now - last_update[s] >= ClaimedWindow)
            => md_fetch'[s] \in {"fetched", "none", "raised"}
        /\ s \notin DOMAIN data_cache
            => md_fetch'[s] \in {"fetched", "none", "raised"}
        /\ md_fetch'[s] = "fetched"
            => /\ data_cache'[s].generated = md_now
               /\ last_update'[s] = md_now
        /\ md_fetch'[s] = "none"
            => <<data_cache, last_update>>' = <<data_cache, last_update>> ]_vars

\* a call that served one symbol from the cache and fetched another again,
\* its minute being over
C26_Witness ==
    /\ md_pc = "idle"
    /\ \E s, t \in MDSymbolSet :
        /\ md_fetch[s] = "cached" /\ market_data[s].generated = md_now - 1
        /\ md_fetch[t] = "fetched" /\ md_now >= ClaimedWindow

\* C27: a failure (exception or no data) while fetching one symbol never
\* aborts get_latest_data: every symbol of the list gets its turn, and the
\* result holds exactly the symbols whose fetch succeeded.
C27_FailureSkipsOneSymbol ==
    (md_pc = "idle" /\ md_k > 1) =>
        /\ \A s \in MDSymbolSet : md_fetch[s] # "untried"
        /\ DOMAIN market_data
                = {s \in MDSymbolSet : md_fetch[s] \in {"cached", "fetched"}}

\* the first symbol raised, the second had no data, the third was fetched
C27_Witness ==
    /\ md_pc = "idle"
    /\ md_fetch[MDSymbols[1]] = "raised"
    /\ md_fetch[MDSymbols[2]] = "none"
    /\ DOMAIN market_data = {MDSymbols[3]}

\* C28: an exception raised inside a trading cycle never ends the loop: while
\* `running` stays true a failed cycle is followed by another trading_cycle
\* attempt; and once running is false no new trading cycle is started.
C28_LoopSurvivesFailure ==
    /\ (bot_last = "failed" /\ bot_pc # "cycle") ~> (bot_pc = "cycle" \/ ~running)
    /\ [][(~running /\ bot_pc # "cycle") => bot_pc' # "cycle"]_vars

\* a second failure after the loop went on from a first one
C28_Witness ==
    /\ bot_errors >= 2
    /\ bot_last = "failed"
    /\ bot_pc = "check"
    /\ running

\* C29: the snapshot is written after every executed order, and a new
\* PortfolioManager that runs initialize() on it has the same balance,
\* positions and trade_history as the manager that wrote it.
C29_SnapshotRoundTrip ==
    engine = "portfolio" =>
        /\ trade_history # <<>> => portfolio_file.exists
        /\ portfolio_file.exists =>
                /\ Len(portfolio_file.trade_history) = Len(trade_history)
                /\ load_portfolio(portfolio_file)
                        = [balance |-> balance, positions |-> pm_positions,
                           trade_history |-> trade_history]

\* a manager initialised from the snapshot of a buy, with the position open,
\* that executed a second order
C29_Witness ==
    /\ engine = "portfolio"
    /\ pm_restarts = 1
    /\ Len(trade_history) = 2
    /\ DOMAIN pm_positions # {}
    /\ portfolio_file.exists

\* C30: every call of run_backtest starts with cash equal to
\* initial_capital and with empty positions, trade list and equity curve,
\* also when the same BacktestEngine object is used for two runs.
C30_EveryRunStartsFresh ==
    [][bt_runs' = bt_runs + 1 =>
        /\ capital' = initial_capital'
        /\ positions' = NoPositions
        /\ trades' = <<>>
        /\ equity_curve' = <<>> ]_vars

\* the window the indicator of a column is said to need
ClaimedHistory(c) ==
    CASE c = "rsi" -> 14
      [] c \in {"bb_middle", "bb_upper", "bb_lower", "sma_20", "volume_sma"} -> 20
      [] c = "sma_50" -> 50
      [] c = "ema_12" -> 12
      [] c \in {"ema_26", "macd"} -> 26
      [] c \in {"macd_signal", "macd_histogram"} -> 9

\* C31: calculate_indicators leaves every indicator undefined (and never 0)
\* on every row that has fewer bars of history than the indicator's window:
\* 14 for RSI, 20 for the Bollinger bands, sma_20 and volume_sma, 50 for
\* sma_50, 12/26/9 for the EMA and MACD fields.
C31_UndefinedBelowWindow ==
    (engine = "indicators" /\ ind_pc = "done") =>
        \A c \in Columns : \A i \in 1..ind_data.rows :
            i < ClaimedHistory(c) =>
                IsNaN(indicators[c][i]) /\ indicators[c][i] # Zero

\* C32: the cash of a ledger is never negative: a PortfolioManager started
\* with a balance >= 0 and given orders with amounts >= 0 keeps balance >= 0,
\* and a BacktestEngine started with initial_capital > 0 keeps capital > 0.
C32_CashNeverNegative ==
    /\ engine = "portfolio" => RLe(Zero, balance)
    /\ engine = "backtest" => RLt(Zero, capital)

\* a buy costing more than the balance was refused after an earlier buy went
\* through
C32_Witness ==
    /\ engine = "portfolio"
    /\ pm_clock = 2
    /\ pm_call.side = "buy"
    /\ pm_result = Rejected("Solde insuffisant")
    /\ RLt(balance, <<10000, 1>>)

\* the ledger the behaviour exercises
CashOf == IF engine = "backtest" THEN capital ELSE balance

InitialCash == IF engine = "backtest" THEN initial_capital ELSE <<10000, 1>>

RecordedTrades == IF engine = "backtest" THEN trades ELSE trade_history

RECURSIVE CostBasis(_, _)
\* the sum of quantity * avg_price over the symbols todo
CostBasis(pos, todo) ==
    IF todo = {} THEN Zero
    ELSE LET s == CHOOSE x \in todo : TRUE
         IN  RAdd(RMul(pos[s].quantity, pos[s].avg_price),
                  CostBasis(pos, todo \ {s}))

TotalProfit(trs) == RSum([j \in 1..Len(trs) |-> trs[j].profit])

\* cash plus cost basis, less the profit recorded so far
BookBalance(cash, pos, trs) ==
    RSub(RAdd(cash, CostBasis(pos, DOMAIN pos)), TotalProfit(trs))

\* C33: after any sequence of executed buys and sells on a ledger, cash plus
\* the sum over open positions of quantity * avg_price equals the initial
\* cash plus the sum of the profit fields of all recorded trades; with no
\* position open, cash - initial cash is the total realized profit.
C33_CostBasisConserved ==
    engine \in {"backtest", "portfolio"} =>
        BookBalance(CashOf, HeldPositions, RecordedTrades) = InitialCash

\* the result run_backtest returns when no trade was recorded
NoTradesResult == [error |-> "Aucun trade execute"]

\* every signal of the bar being executed is named after that bar, and no
\* trade is recorded
LabelledByBar ==
    /\ bt_pc = "exec" =>
           \A j \in 1..Len(signals) : signals[j].symbol = BarLabel(bar)
    /\ \A s \in DOMAIN positions : \E b \in 0..bar : s = BarLabel(b)
    /\ trades = <<>>

\* C36 as stated: in a backtest run with the RSI, MACD, DCA, Scalping or
\* TrendFollowing strategy every signal's symbol is the index label of its
\* bar, so a sell never finds a position of an earlier bar, the trade list
\* stays empty, and the run ends with the 'no trades' result.
C36_NoTradesEveryRun ==
    (engine = "backtest" /\ bt_strategy \in LabelledStrategies) =>
        /\ LabelledByBar
        /\ bt_pc = "done" => bt_result = NoTradesResult

\* C36: the same, the result being 'no trades' when the test window has at
\* least one bar (an empty window returns the 'no data' error before the
\* loop).
C36_NoTradesWhenBars ==
    (engine = "backtest" /\ bt_strategy \in LabelledStrategies) =>
        /\ LabelledByBar
        /\ (bt_pc = "done" /\ n_bars > 0) => bt_result = NoTradesResult

\* a sell arrived while a position bought at the bar before was open, and the
\* run ended without a trade
C36_Witness ==
    /\ engine = "backtest"
    /\ bt_strategy \in LabelledStrategies
    /\ bt_pc = "done"
    /\ n_bars = MaxBars
    /\ BarLabel(MinLookback - 1) \in DOMAIN positions
    /\ signals # <<>>
    /\ signals[1].side = "sell"
    /\ bt_result = NoTradesResult

\* the close is within 0.1% of the price of a level
WithinReach(current_price, level_price) ==
    RLt(RMul(RAbs(RSub(current_price, level_price)), <<1000, 1>>), level_price)

\* the call returned the signal of this level
Fired(result, level) ==
    \E j \in 1..Len(result) :
        result[j].side = level.side /\ result[j].price = level.price

NamedInKeys(enabled, keys) == SelectSeq(enabled, LAMBDA n : n \in keys)

Failed == {i \in 1..Len(mgr_outcomes) : mgr_outcomes[i].raised}

\* the signals of the tasks that returned a list, in task order
RECURSIVE Survivors(_, _)
Survivors(outcomes, k) ==
    IF k = 0 THEN <<>>
    ELSE Survivors(outcomes, k - 1)
         \o (IF k \in Failed THEN <<>> ELSE outcomes[k].value)

\* C39: an exception raised by one strategy's analyze() does not propagate
\* out of analyze_market and does not discard the other strategies' results:
\* the call returns, and its output is the aggregation of exactly the signals
\* returned by the strategies that did not fail.
C39_FailureIsIsolated ==
    /\ (engine = "manager" /\ mgr_pc = "gather" /\ Failed # {}
          /\ Len(mgr_order) = Len(mgr_tasks)) => ENABLED CollectResults
    /\ (engine = "manager" /\ mgr_pc = "done" /\ Failed # {}) =>
          mgr_out = filter_and_prioritize_signals(
                        Survivors(mgr_outcomes, Len(mgr_outcomes)))

\* the first of two strategies raised and the signal of the second came out
C39_Witness ==
    /\ engine = "manager"
    /\ mgr_pc = "done"
    /\ Len(mgr_tasks) = 2
    /\ Failed = {1}
    /\ mgr_outcomes[2].value # <<>>
    /\ mgr_out = mgr_outcomes[2].value

C40_RiskStatsUntouched ==
    [][(engine \in {"trade", "live"}) =>
        /\ UNCHANGED <<daily_pnl, daily_trades, risk_trade_history>>
        /\ ~RLt(daily_pnl', RNeg(max_daily_loss'))
        /\ Len(risk_trade_history') = 0
      ]_vars

\* a position was bought and sold at a loss, and the statistics are as
\* constructed
C40_Witness ==
    /\ engine = "trade"
    /\ pm_clock = 2
    /\ Len(trade_history) = 2
    /\ RLt(trade_history[2].profit, Zero)
    /\ daily_pnl = Zero /\ daily_trades = 0 /\ risk_trade_history = <<>>

====
